---- MODULE Spec2Model ----
(***************************************************************************)
(* A model of the itinerary core of travel-smart-ai:                       *)
(*   - lib/google-ai (src/unnamed/part_008): cleanAndParseResponse, the     *)
(*     travel-time helpers and generateItinerary's retry loop, start-point  *)
(*     synthesis, dayIndex clamp and sort;                                  *)
(*   - SmartItineraryOptimizer (src/unnamed/part_003): optimizeRoute.       *)
(*                                                                         *)
(* Conventions.                                                            *)
(*   Strings are tuples of one-character strings, so that toLowerCase,     *)
(*   includes, startsWith, trim, split and the regular expressions of the  *)
(*   source are computed on characters.                                    *)
(*   A JSON value (a field of a parsed element) is a record                *)
(*   [t, n, s]: t is its typeof ("undefined", "number", "string"), n the   *)
(*   number, s the string.                                                 *)
(*   A dayIndex is held in units of 1/DayUnit of a day, so that the        *)
(*   fractional values a JSON number can take (0.5, 1.5) are values of     *)
(*   the model; d is an integer day iff d % DayUnit = 0.                   *)
(***************************************************************************)
EXTENDS Integers, Sequences, FiniteSets, TLC

VARIABLES
  pc,          \* position of the generateItinerary run
  apiKey,      \* import.meta.env.VITE_GOOGLE_AI_API_KEY is set
  startPoint,  \* arguments of the run
  endPoint,
  duration,
  pace,
  attempt,     \* the loop variable of the retry loop
  lastError,   \* the error caught last, NoError before any
  response,    \* what callGoogleAI delivered to the current attempt
  returned,    \* the list the run resolved with
  thrown,      \* the message of the error the run rejected with
  callsIssued, \* calls of callGoogleAI issued in this run
  failures,    \* attempts of this run that have failed
  waited,      \* the delays (ms) this run has waited through
  route,       \* optimizeRoute: [input, output]
  optimized,   \* optimizeItinerary: its arguments and what it delivered
  rushHour,    \* isRushHour: [hour, timeStr, result]
  scanner,     \* the brace scan: [text, i, state, done, result]
  generator,   \* AiItineraryGenerator: its state and the closure of the run
  builder      \* ItineraryBuilder: [locations, mustVisitPlaces, uuids]

vars == <<pc, apiKey, startPoint, endPoint, duration, pace, attempt, lastError,
          response, returned, thrown, callsIssued, failures, waited, route,
          optimized, rushHour,
          scanner,
          generator,
          builder>>

genVars == <<pc, apiKey, startPoint, endPoint, duration, pace, attempt,
             lastError, response, returned, thrown, callsIssued, failures,
             waited>>

-----------------------------------------------------------------------------
(* Numbers *)

Max(a, b) == IF a >= b THEN a ELSE b

Min(a, b) == IF a <= b THEN a ELSE b

\* Math.round(num / den) for den > 0: the nearest integer, halves upwards.
RoundDiv(num, den) == (2 * num + den) \div (2 * den)

DayUnit == 2

\* the result of a floating-point operation that is not a number
NaN == -1

\* minDistance before any candidate: more than every distance
Infinity == 1000

-----------------------------------------------------------------------------
(* Strings *)

Upper == <<"A", "B", "C", "D", "E", "F", "G", "H", "I", "J", "K", "L", "M",
           "N", "O", "P", "Q", "R", "S", "T", "U", "V", "W", "X", "Y", "Z">>

Lower == <<"a", "b", "c", "d", "e", "f", "g", "h", "i", "j", "k", "l", "m",
           "n", "o", "p", "q", "r", "s", "t", "u", "v", "w", "x", "y", "z">>

Digits == <<"0", "1", "2", "3", "4", "5", "6", "7", "8", "9">>

IsDigit(c) == \E i \in 1..10 : Digits[i] = c

DigitVal(c) == (CHOOSE i \in 1..10 : Digits[i] = c) - 1

IsSpace(c) == c \in {" ", "\n", "\t", "\r"}

toLowerCaseChar(c) ==
  IF \E i \in 1..26 : Upper[i] = c
  THEN Lower[CHOOSE i \in 1..26 : Upper[i] = c]
  ELSE c

toLowerCase(s) == [i \in 1..Len(s) |-> toLowerCaseChar(s[i])]

\* s.substring(i-1, j) with 1-based inclusive bounds; empty when j < i.
Sub(s, i, j) == IF j < i THEN <<>> ELSE SubSeq(s, i, j)

\* match of sub at position i of s
MatchAt(s, sub, i) ==
  /\ i >= 1
  /\ i + Len(sub) - 1 <= Len(s)
  /\ \A k \in 1..Len(sub) : s[i + k - 1] = sub[k]

includes(s, sub) == \E i \in 1..(Len(s) + 1) : MatchAt(s, sub, i)

startsWith(s, prefix) == MatchAt(s, prefix, 1)

trim(s) ==
  IF \A i \in 1..Len(s) : IsSpace(s[i]) THEN <<>>
  ELSE LET first == CHOOSE i \in 1..Len(s) :
                      /\ ~IsSpace(s[i])
                      /\ \A k \in 1..(i - 1) : IsSpace(s[k])
           last  == CHOOSE i \in 1..Len(s) :
                      /\ ~IsSpace(s[i])
                      /\ \A k \in (i + 1)..Len(s) : IsSpace(s[k])
       IN  SubSeq(s, first, last)

\* end of the maximal run of digits that starts at i (i - 1 when s[i] is none)
DigitRunEnd(s, i) ==
  CHOOSE j \in (i - 1)..Len(s) :
    /\ \A k \in i..j : IsDigit(s[k])
    /\ (j < Len(s) => ~IsDigit(s[j + 1]))

RECURSIVE DigitsVal(_)
\* the decimal value of a string of digits
DigitsVal(s) ==
  IF s = <<>> THEN 0
  ELSE 10 * DigitsVal(SubSeq(s, 1, Len(s) - 1)) + DigitVal(s[Len(s)])

-----------------------------------------------------------------------------
(* JSON values *)

Undefined == [t |-> "undefined", n |-> 0, s |-> <<>>]

Num(k) == [t |-> "number", n |-> k, s |-> <<>>]

Str(chars) == [t |-> "string", n |-> 0, s |-> chars]

\* JavaScript truthiness of a JSON value
Truthy(v) ==
  \/ v.t = "number" /\ v.n # 0
  \/ v.t = "string" /\ v.s # <<>>

\* v?.trim() || '' ; the caller has excluded values that have no trim method
TrimOrEmpty(v) == IF v.t = "string" THEN trim(v.s) ELSE <<>>

-----------------------------------------------------------------------------
(* Travel time: getBaseTravelTime, calculateExactTravelTime, isRushHour *)

\* /(\d+(?:\.\d+)?)\s*(?:km|kilometers?)/i tried at position i of s: the
\* digits, an optional fraction, white space, then the unit.
KmIntEnd(s, i) == DigitRunEnd(s, i)

KmNumberEnd(s, i) ==
  LET e == KmIntEnd(s, i)
      KmHasFraction == /\ e + 2 <= Len(s)
                       /\ s[e + 1] = "."
                       /\ IsDigit(s[e + 2])
  IN  IF KmHasFraction THEN DigitRunEnd(s, KmIntEnd(s, i) + 2)
      ELSE KmIntEnd(s, i)

KmMatchAt(s, i) ==
  /\ i <= Len(s)
  /\ IsDigit(s[i])
  /\ LET \* end of the maximal run of white space that starts at f
         SpaceRunEnd(f) ==
           CHOOSE j \in (f - 1)..Len(s) :
             /\ \A k \in f..j : IsSpace(s[k])
             /\ (j < Len(s) => ~IsSpace(s[j + 1]))
         u == SpaceRunEnd(KmNumberEnd(s, i) + 1) + 1
     IN  \/ MatchAt(toLowerCase(s), <<"k", "m">>, u)
         \/ MatchAt(toLowerCase(s),
                    <<"k", "i", "l", "o", "m", "e", "t", "e", "r">>, u)

\* KmBelowTwo is parseFloat(distanceMatch[1]) < 2 and KmAtMostFive is
\* parseFloat(distanceMatch[1]) <= 5
getBaseTravelTime(travelTime, description) ==
  IF travelTime.t = "number" THEN travelTime.n
  ELSE LET d == IF description.t = "string" THEN description.s ELSE <<>>
           whole(i) == DigitsVal(Sub(d, i, KmIntEnd(d, i)))
           KmBelowTwo(x, i) == whole(i) < 2
           KmAtMostFive(x, i) ==
             \/ whole(i) < 5
             \/ /\ whole(i) = 5
                /\ \A k \in (KmIntEnd(x, i) + 2)..KmNumberEnd(x, i) : x[k] = "0"
       IN
       IF \E i \in 1..Len(d) : KmMatchAt(d, i)
       THEN LET i == CHOOSE i \in 1..Len(d) :
                       /\ KmMatchAt(d, i)
                       /\ \A k \in 1..(i - 1) : ~KmMatchAt(d, k)
            IN  IF KmBelowTwo(d, i) THEN 15
                ELSE IF KmAtMostFive(d, i) THEN 25
                ELSE 45
       ELSE IF travelTime.t = "string"
       THEN LET s == travelTime.s
                low == toLowerCase(s)
            IN  IF \E i \in 1..Len(s) : IsDigit(s[i])
                THEN LET i == CHOOSE i \in 1..Len(s) :
                                /\ IsDigit(s[i])
                                /\ \A k \in 1..(i - 1) : ~IsDigit(s[k])
                     IN  DigitsVal(Sub(s, i, DigitRunEnd(s, i)))
                ELSE IF \/ includes(low, <<"s", "h", "o", "r", "t">>)
                        \/ includes(low, <<"n", "e", "a", "r", "b", "y">>)
                THEN 15
                ELSE IF \/ includes(low, <<"l", "o", "n", "g">>)
                        \/ includes(low, <<"f", "a", "r">>)
                THEN 45
                ELSE 25
       ELSE 25

\* Math.round(base * 1.4) in rush hour, Math.round(base) otherwise; base is
\* an integer here, and no integer times 1.4 lies on a half.
calculateExactTravelTime(base, rush) ==
  IF rush THEN RoundDiv(base * 14, 10) ELSE base

isRushHour(timeStr) ==
  IF timeStr = <<>> THEN FALSE
  ELSE LET time == toLowerCase(timeStr)
           isMorningRush ==
             \/ includes(time, <<"8", ":">>)
             \/ includes(time, <<"9", ":">>)
             \/ includes(time, <<"8", " ", "a", "m">>)
             \/ includes(time, <<"9", " ", "a", "m">>)
           isEveningRush ==
             \/ includes(time, <<"4", ":">>)
             \/ includes(time, <<"5", ":">>)
             \/ includes(time, <<"6", ":">>)
             \/ includes(time, <<"4", " ", "p", "m">>)
             \/ includes(time, <<"5", " ", "p", "m">>)
             \/ includes(time, <<"6", " ", "p", "m">>)
       IN  isMorningRush \/ isEveningRush

-----------------------------------------------------------------------------
(* cleanAndParseResponse, first pass: one element of the parsed array *)

HotelPrefix == <<"[", "h", "o", "t", "e", "l", "]">>

\* an error value: its message is prefix + msg, and names the element index
\* (-1 when it names none)
Err(msg, index) == [prefix |-> "", msg |-> msg, index |-> index]

NoError == Err("", -1)

\* the element has no usable name or dayIndex (line 222)
MissingRequired(item) == ~Truthy(item.name) \/ item.dayIndex.t # "number"

\* a method call on a value that has no such method: name.toLowerCase,
\* description.trim, address.trim, bestTimeToVisit.toLowerCase
ItemTypeError(item) ==
  \/ item.name.t # "string"
  \/ item.description.t \notin {"string", "undefined"}
  \/ item.address.t \notin {"string", "undefined"}
  \/ /\ ~startsWith(toLowerCase(item.name.s), HotelPrefix)
     /\ item.bestTimeToVisit.t \notin {"string", "undefined"}

ClampDuration(v) ==
  IF v.t = "number" THEN Max(30, Min(480, v.n)) ELSE 120

\* ClampTravelTime without the bounds of line 253
UnboundedTravelTime(calculatedTravelTime) == calculatedTravelTime

ClampTravelTime(calculatedTravelTime) ==
  Max(5, Min(180, calculatedTravelTime))

\* the body of the map of lines 221-263, for an element that passed the checks
ProcessItem(item) ==
  LET isHotel == startsWith(toLowerCase(item.name.s), HotelPrefix)
      baseLocation ==
        [name            |-> trim(item.name.s),
         description     |-> TrimOrEmpty(item.description),
         dayIndex        |-> item.dayIndex.n,
         address         |-> TrimOrEmpty(item.address),
         isStartingPoint |-> Truthy(item.isStartingPoint),
         isHotel         |-> isHotel]
      baseTime == getBaseTravelTime(item.travelTimeToNext, item.description)
      timeStr == IF item.bestTimeToVisit.t = "string"
                 THEN toLowerCase(item.bestTimeToVisit.s) ELSE <<>>
      calculatedTravelTime ==
        calculateExactTravelTime(baseTime, isRushHour(timeStr))
  IN  IF isHotel THEN baseLocation
      ELSE [name             |-> baseLocation.name,
            description      |-> baseLocation.description,
            dayIndex         |-> baseLocation.dayIndex,
            address          |-> baseLocation.address,
            isStartingPoint  |-> baseLocation.isStartingPoint,
            isHotel          |-> FALSE,
            estimatedDuration |-> ClampDuration(item.estimatedDuration),
            bestTimeToVisit  |-> TrimOrEmpty(item.bestTimeToVisit),
            travelTimeToNext |-> ClampTravelTime(calculatedTravelTime)]

-----------------------------------------------------------------------------
(* The response text.                                                      *)
(*                                                                         *)
(* A text is a sequence of tokens.  A token is one character of the text   *)
(* ("[", "]", "{", "}", ",", "\"", "\\", white space, "x" for any other    *)
(* character of prose), the fence marker (three backquotes, "fence"), the  *)
(* word "json", or the member text of one object, Body(item): the text     *)
(* between the braces of a complete object, which spells item.  A member   *)
(* text has its string literals closed and no brace or bracket outside     *)
(* them; it holds a "[" or "]" inside a literal when a string of item      *)
(* does.  Ch("cut") is a member text cut off right after a "]" inside a   *)
(* literal, and "broken" a member text that the repair passes have turned  *)
(* into text JSON.parse rejects.                                           *)

NoItem == [name |-> Undefined, description |-> Undefined, address |-> Undefined,
           dayIndex |-> Undefined, isStartingPoint |-> Undefined,
           estimatedDuration |-> Undefined, travelTimeToNext |-> Undefined,
           bestTimeToVisit |-> Undefined]

Ch(c) == [c |-> c, item |-> NoItem]

Body(item) == [c |-> "body", item |-> item]

IsWs(tok) == tok.c \in {" ", "\n", "\r", "\t"}

\* the strings of an element, as its member text spells them
ItemStrings(item) ==
  {v.s : v \in {w \in {item.name, item.description, item.address,
                       item.travelTimeToNext, item.bestTimeToVisit} :
                  w.t = "string"}}

\* text.match(/\[[\s\S]*\]/): from the first "[" to the last "]" of the text,
\* <<>> standing for no match.  A last "]" inside a member text cuts it.
\* (In the texts of this model the first "[" is a token of its own.)
MatchArray(text) ==
  LET HasOpenBracket(tok) ==
        \/ tok.c = "["
        \/ /\ tok.c = "body"
           /\ \E str \in ItemStrings(tok.item) : includes(str, <<"[">>)
      HasCloseBracket(tok) ==
        \/ tok.c = "]"
        \/ /\ tok.c = "body"
           /\ \E str \in ItemStrings(tok.item) : includes(str, <<"]">>)
      opens  == {i \in 1..Len(text) : HasOpenBracket(text[i])}
      closes == {i \in 1..Len(text) : HasCloseBracket(text[i])}
  IN  IF opens = {} THEN <<>>
      ELSE LET f == CHOOSE i \in opens : \A k \in opens : i <= k
               after == {i \in closes : i > f}
           IN  IF after = {} THEN <<>>
               ELSE LET l == CHOOSE i \in after : \A k \in after : k <= i
                    IN  IF text[l].c = "]" THEN SubSeq(text, f, l)
                        ELSE Sub(text, f, l - 1) \o <<Ch("cut")>>

RECURSIVE StripFences(_)
\* .replace(/(fence)json\s*|\s*(fence)/g, '') of line 112
StripFences(t) ==
  IF t = <<>> THEN <<>>
  ELSE IF t[1].c = "fence" /\ Len(t) >= 2 /\ t[2].c = "json"
  THEN LET e == CHOOSE j \in 2..Len(t) :
                  /\ \A k \in 3..j : IsWs(t[k])
                  /\ (j < Len(t) => ~IsWs(t[j + 1]))
       IN  StripFences(Sub(t, e + 1, Len(t)))
  ELSE LET e == CHOOSE j \in 0..Len(t) :
                  /\ \A k \in 1..j : IsWs(t[k])
                  /\ (j < Len(t) => ~IsWs(t[j + 1]))
       IN  IF e < Len(t) /\ t[e + 1].c = "fence"
           THEN StripFences(Sub(t, e + 2, Len(t)))
           ELSE <<t[1]>> \o StripFences(Tail(t))

RECURSIVE JoinCrLf(_)
\* .replace(/\r\n/g, '\n')
JoinCrLf(t) ==
  IF t = <<>> THEN <<>>
  ELSE IF t[1].c = "\r" /\ Len(t) >= 2 /\ t[2].c = "\n"
  THEN JoinCrLf(Tail(t))
  ELSE <<t[1]>> \o JoinCrLf(Tail(t))

RECURSIVE FoldLines(_)
\* .replace(/\n\s+/g, ' ')
FoldLines(t) ==
  IF t = <<>> THEN <<>>
  ELSE IF t[1].c = "\n" /\ Len(t) >= 2 /\ IsWs(t[2])
  THEN LET e == CHOOSE j \in 2..Len(t) :
                  /\ \A k \in 2..j : IsWs(t[k])
                  /\ (j < Len(t) => ~IsWs(t[j + 1]))
       IN  <<Ch(" ")>> \o FoldLines(Sub(t, e + 1, Len(t)))
  ELSE <<t[1]>> \o FoldLines(Tail(t))

\* lines 109-117: match[0] starts with "[" and ends with "]", so trim() and
\* the replace of line 114 leave it as it is
InitialCleanup(matched) == FoldLines(JoinCrLf(StripFences(matched)))

-----------------------------------------------------------------------------
(* cleanAndParseResponse: the brace scan of lines 121-161 *)

ScanInit == [braceCount |-> 0, lastCompleteObjectEnd |-> -1,
             inString |-> FALSE, escapeNext |-> FALSE]

\* a scan that counts the braces inside string literals too
BracesInsideStrings(st, c, i) ==
  IF st.escapeNext THEN [st EXCEPT !.escapeNext = FALSE]
  ELSE IF c = "\\" THEN [st EXCEPT !.escapeNext = TRUE]
  ELSE IF c = "\"" THEN [st EXCEPT !.inString = ~st.inString]
  ELSE IF c = "{"
  THEN [st EXCEPT !.braceCount = st.braceCount + 1]
  ELSE IF c = "}"
  THEN [st EXCEPT !.braceCount = st.braceCount - 1,
                  !.lastCompleteObjectEnd =
                     IF st.braceCount - 1 = 0 THEN i
                     ELSE st.lastCompleteObjectEnd]
  ELSE st

\* one character of the loop of lines 126-154; i is its 0-based index
ScanChar(st, c, i) ==
  IF st.escapeNext THEN [st EXCEPT !.escapeNext = FALSE]
  ELSE IF c = "\\" THEN [st EXCEPT !.escapeNext = TRUE]
  ELSE IF c = "\"" THEN [st EXCEPT !.inString = ~st.inString]
  ELSE IF ~st.inString /\ c = "{"
  THEN [st EXCEPT !.braceCount = st.braceCount + 1]
  ELSE IF ~st.inString /\ c = "}"
  THEN [st EXCEPT !.braceCount = st.braceCount - 1,
                  !.lastCompleteObjectEnd =
                     IF st.braceCount - 1 = 0 THEN i
                     ELSE st.lastCompleteObjectEnd]
  ELSE st

\* the loop over the characters of one token.  A member text opens with a
\* quote and holds an even number of unescaped quotes (a cut one an odd
\* number) and no brace outside its literals, so the loop leaves it with
\* inString as it entered, unless the first quote was escaped or skipped.
ScanToken(st, tok, i) ==
  IF tok.c = "body"
  THEN IF st.escapeNext
       THEN [st EXCEPT !.escapeNext = FALSE, !.inString = ~st.inString]
       ELSE st
  ELSE IF tok.c = "cut"
  THEN IF st.escapeNext
       THEN [st EXCEPT !.escapeNext = FALSE]
       ELSE [st EXCEPT !.inString = ~st.inString]
  ELSE ScanChar(st, tok.c, i)

RECURSIVE Scan(_, _)
\* the scanner's state after the first k tokens of t
Scan(t, k) ==
  IF k = 0 THEN ScanInit ELSE ScanToken(Scan(t, k - 1), t[k], k - 1)

\* lines 156-161
TruncateToLastObject(cleanedText) ==
  LET st == Scan(cleanedText, Len(cleanedText))
  IN  IF st.braceCount > 0 /\ st.lastCompleteObjectEnd # -1
      THEN LET cut == SubSeq(cleanedText, 1, st.lastCompleteObjectEnd + 1)
           IN  IF cut[1].c = "[" THEN cut \o <<Ch("]")>> ELSE cut
      ELSE cleanedText

\* The scan on its own, one character at a time, over every text of up to
\* MaxScan characters of braces, quotes, backslashes and a letter.
MaxScan == 4

ScanTexts ==
  UNION {[1..n -> {Ch("{"), Ch("}"), Ch("\""), Ch("\\"), Ch("x")}] : n \in 0..MaxScan}

NoScan == [phase |-> "idle", text |-> <<>>, i |-> 0, state |-> ScanInit,
           result |-> <<>>]

\* lines 121-124: the scan starts on cleanedText
StartScan(cleanedText) ==
  /\ scanner.phase = "idle"
  /\ scanner' = [NoScan EXCEPT !.phase = "scanning", !.text = cleanedText]
  /\ UNCHANGED <<genVars, route, optimized, rushHour,
                 generator,
                 builder>>

\* one turn of the loop of lines 126-154
ScanStep ==
  /\ scanner.phase = "scanning"
  /\ scanner.i < Len(scanner.text)
  /\ scanner' = [scanner EXCEPT
                   !.state = ScanToken(scanner.state,
                                       scanner.text[scanner.i + 1], scanner.i),
                   !.i = scanner.i + 1]
  /\ UNCHANGED <<genVars, route, optimized, rushHour,
                 generator,
                 builder>>

\* the loop is over: lines 156-161
FinishScan ==
  /\ scanner.phase = "scanning"
  /\ scanner.i = Len(scanner.text)
  /\ scanner' = [scanner EXCEPT !.phase = "done",
                                !.result = TruncateToLastObject(scanner.text)]
  /\ UNCHANGED <<genVars, route, optimized, rushHour,
                 generator,
                 builder>>

NextScan ==
  \/ \E cleanedText \in ScanTexts : StartScan(cleanedText)
  \/ ScanStep
  \/ FinishScan

-----------------------------------------------------------------------------
(* cleanAndParseResponse: the repair passes of lines 166-201.               *)
(*                                                                         *)
(* The passes of lines 168-195 rewrite member text.  The strings of the    *)
(* elements of this model hold no "/", no quote, no comma and no white     *)
(* space at their ends, and the elements no boolean, so that the passes of *)
(* lines 168, 172-175 and 179-195 leave their member text as it is.  The   *)
(* passes of lines 170 and 177 do not: the first puts quotes around every  *)
(* word that a colon follows, inside string literals too, and the second   *)
(* drops the quotes around the digits that start the value of a numeric    *)
(* field.                                                                  *)

\* /(['"])?([a-zA-Z0-9_]+)(['"])?\s*:/ (line 170) matches inside the literal
\* of the string str: the literal becomes "word":rest", which JSON.parse
\* rejects; IsWordChar is the class [a-zA-Z0-9_]
QuotesWordInside(str) ==
  LET IsWordChar(c) ==
        \/ IsDigit(c)
        \/ c = "_"
        \/ \E i \in 1..26 : Upper[i] = c \/ Lower[i] = c
  IN  \E i \in 1..Len(str) :
        /\ str[i] = ":"
        /\ \E j \in 1..(i - 1) :
             /\ IsWordChar(str[j])
             /\ \A k \in (j + 1)..(i - 1) : IsSpace(str[k])

\* /"(estimatedDuration|travelTimeToNext|dayIndex)"\s*:\s*"?(\d+)"?/ (line
\* 177) matches at a string value v that starts with digits, and leaves
\* text that JSON.parse rejects when more than digits are in the string
UnquotesDigitsOnly(v) ==
  /\ v.t = "string"
  /\ v.s # <<>>
  /\ IsDigit(v.s[1])
  /\ \E i \in 1..Len(v.s) : ~IsDigit(v.s[i])

\* the value of a numeric field after line 177
UnquotedNumber(v) ==
  IF v.t = "string" /\ v.s # <<>> /\ \A i \in 1..Len(v.s) : IsDigit(v.s[i])
  THEN Num(DigitsVal(v.s))
  ELSE v

\* the member text of item after lines 168-195: member text of another
\* item, or text that JSON.parse rejects (the token "broken")
FixMemberText(item) ==
  IF \/ \E v \in {item.name, item.description, item.address, item.dayIndex,
                   item.estimatedDuration, item.travelTimeToNext,
                   item.bestTimeToVisit} :
          v.t = "string" /\ QuotesWordInside(v.s)
     \/ \E v \in {item.dayIndex, item.estimatedDuration, item.travelTimeToNext} :
          UnquotesDigitsOnly(v)
  THEN Ch("broken")
  ELSE Body([item EXCEPT !.dayIndex = UnquotedNumber(item.dayIndex),
                         !.estimatedDuration = UnquotedNumber(item.estimatedDuration),
                         !.travelTimeToNext = UnquotedNumber(item.travelTimeToNext)])

\* lines 168-195 on a text
FixMembers(t) ==
  [i \in 1..Len(t) |-> IF t[i].c = "body" THEN FixMemberText(t[i].item) ELSE t[i]]

\* the end of the white space that starts at position i of t
WsEnd(t, i) ==
  CHOOSE j \in (i - 1)..Len(t) :
    /\ \A k \in i..j : IsWs(t[k])
    /\ (j < Len(t) => ~IsWs(t[j + 1]))

RECURSIVE RemoveTrailingCommas(_)
\* .replace(/,(\s*[}\]])/g, '$1')
RemoveTrailingCommas(t) ==
  IF t = <<>> THEN <<>>
  ELSE LET e == WsEnd(t, 2)
       IN  IF t[1].c = "," /\ e < Len(t) /\ t[e + 1].c \in {"}", "]"}
           THEN Sub(t, 2, e + 1) \o RemoveTrailingCommas(Sub(t, e + 2, Len(t)))
           ELSE <<t[1]>> \o RemoveTrailingCommas(Tail(t))

RECURSIVE FixDoubleCommas(_)
\* .replace(/,\s*,/g, ',')
FixDoubleCommas(t) ==
  IF t = <<>> THEN <<>>
  ELSE LET e == WsEnd(t, 2)
       IN  IF t[1].c = "," /\ e < Len(t) /\ t[e + 1].c = ","
           THEN <<Ch(",")>> \o FixDoubleCommas(Sub(t, e + 2, Len(t)))
           ELSE <<t[1]>> \o FixDoubleCommas(Tail(t))

RECURSIVE SeparateObjects(_)
\* .replace(/}\s*{/g, '},{')
SeparateObjects(t) ==
  IF t = <<>> THEN <<>>
  ELSE LET e == WsEnd(t, 2)
       IN  IF t[1].c = "}" /\ e < Len(t) /\ t[e + 1].c = "{"
           THEN <<Ch("}"), Ch(","), Ch("{")>>
                  \o SeparateObjects(Sub(t, e + 2, Len(t)))
           ELSE <<t[1]>> \o SeparateObjects(Tail(t))

\* /\[\s*,\s*{/ matches at position i of t; the position of its last token
LeadingCommaEnd(t, i) ==
  LET a == WsEnd(t, i + 1)
      b == WsEnd(t, a + 2)
  IN  IF /\ t[i].c = "["
         /\ a < Len(t) /\ t[a + 1].c = ","
         /\ b < Len(t) /\ t[b + 1].c = "{"
      THEN b + 1 ELSE 0

\* .replace(/\[\s*,\s*{/, '[{'): the first match only
FixLeadingComma(t) ==
  IF \E i \in 1..Len(t) : LeadingCommaEnd(t, i) # 0
  THEN LET i == CHOOSE i \in 1..Len(t) :
                  /\ LeadingCommaEnd(t, i) # 0
                  /\ \A k \in 1..(i - 1) : LeadingCommaEnd(t, k) = 0
       IN  Sub(t, 1, i - 1) \o <<Ch("["), Ch("{")>>
             \o Sub(t, LeadingCommaEnd(t, i) + 1, Len(t))
  ELSE t

\* /}\s*,\s*\]/ matches at position i of t; the position of its last token
ClosingCommaEnd(t, i) ==
  LET a == WsEnd(t, i + 1)
      b == WsEnd(t, a + 2)
  IN  IF /\ t[i].c = "}"
         /\ a < Len(t) /\ t[a + 1].c = ","
         /\ b < Len(t) /\ t[b + 1].c = "]"
      THEN b + 1 ELSE 0

\* .replace(/}\s*,\s*\]/, '}]'): the first match only
FixClosingComma(t) ==
  IF \E i \in 1..Len(t) : ClosingCommaEnd(t, i) # 0
  THEN LET i == CHOOSE i \in 1..Len(t) :
                  /\ ClosingCommaEnd(t, i) # 0
                  /\ \A k \in 1..(i - 1) : ClosingCommaEnd(t, k) = 0
       IN  Sub(t, 1, i - 1) \o <<Ch("}"), Ch("]")>>
             \o Sub(t, ClosingCommaEnd(t, i) + 1, Len(t))
  ELSE t

RepairPasses(cleanedText) ==
  FixClosingComma(FixLeadingComma(SeparateObjects(
    FixDoubleCommas(RemoveTrailingCommas(FixMembers(cleanedText))))))

-----------------------------------------------------------------------------
(* cleanAndParseResponse: JSON.parse, validation, hotel de-duplication *)

RECURSIVE ParseElements(_)
\* the elements between the brackets: objects separated by commas.
\* [ok, items]; an object without members is read as NoItem.
ParseElements(t) ==
  LET one == IF Len(t) >= 3 /\ t[1].c = "{" /\ t[2].c = "body" /\ t[3].c = "}"
             THEN [len |-> 3, item |-> t[2].item]
             ELSE IF Len(t) >= 2 /\ t[1].c = "{" /\ t[2].c = "}"
             THEN [len |-> 2, item |-> NoItem]
             ELSE [len |-> 0, item |-> NoItem]
  IN  IF one.len = 0 THEN [ok |-> FALSE, items |-> <<>>]
      ELSE IF Len(t) = one.len THEN [ok |-> TRUE, items |-> <<one.item>>]
      ELSE IF t[one.len + 1].c = "," /\ Len(t) > one.len + 1
      THEN LET rest == ParseElements(Sub(t, one.len + 2, Len(t)))
           IN  [ok |-> rest.ok, items |-> <<one.item>> \o rest.items]
      ELSE [ok |-> FALSE, items |-> <<>>]

\* JSON.parse(cleanedText) for a text that starts with "[" and ends with "]"
JSONParse(cleanedText) ==
  LET t == SelectSeq(cleanedText, LAMBDA tok : ~IsWs(tok))
  IN  IF Len(t) = 2 THEN [ok |-> TRUE, items |-> <<>>]
      ELSE ParseElements(SubSeq(t, 2, Len(t) - 1))

\* the rethrow of line 301: `Failed to parse AI response: ${error.message}`
ParseFailure(e) == [e EXCEPT !.prefix = "Failed to parse AI response: "]

\* the error the first pass throws at an element, NoError when it throws none
ItemError(item, index) ==
  IF MissingRequired(item)
  THEN Err("Invalid location data: missing required fields", index)
  ELSE IF ItemTypeError(item)
  THEN Err("TypeError: not a function", -1)
  ELSE NoError

\* a map that keeps the first hotel of a dayIndex
FirstHotelOfDay(initialProcessed, day) ==
  LET hotels == {i \in 1..Len(initialProcessed) :
                   /\ initialProcessed[i].isHotel
                   /\ initialProcessed[i].dayIndex = day}
  IN  CHOOSE i \in hotels : \A k \in hotels : k >= i

\* lines 265-283: of the hotels of one dayIndex only the last one is kept
hotelsByDay(initialProcessed, day) ==
  LET hotels == {i \in 1..Len(initialProcessed) :
                   /\ initialProcessed[i].isHotel
                   /\ initialProcessed[i].dayIndex = day}
  IN  CHOOSE i \in hotels : \A k \in hotels : k <= i

RECURSIVE FilterHotels(_, _)
\* the filter of lines 277-283 applied to the first k entries
FilterHotels(initialProcessed, k) ==
  IF k = 0 THEN <<>>
  ELSE LET item == initialProcessed[k]
           keep == \/ ~item.isHotel
                   \/ k = hotelsByDay(initialProcessed, item.dayIndex)
       IN  FilterHotels(initialProcessed, k - 1)
             \o (IF keep THEN <<item>> ELSE <<>>)

\* lines 209-302 for a parsed array: [ok, value, error]
ProcessParsed(parsed) ==
  IF parsed = <<>>
  THEN [ok |-> FALSE, value |-> <<>>,
        error |-> ParseFailure(Err("Empty array returned from AI service", -1))]
  ELSE IF \E i \in 1..Len(parsed) : ItemError(parsed[i], i - 1) # NoError
  THEN LET i == CHOOSE i \in 1..Len(parsed) :
                  /\ ItemError(parsed[i], i - 1) # NoError
                  /\ \A k \in 1..(i - 1) : ItemError(parsed[k], k - 1) = NoError
       IN  [ok |-> FALSE, value |-> <<>>,
            error |-> ParseFailure(ItemError(parsed[i], i - 1))]
  ELSE LET initialProcessed == [i \in 1..Len(parsed) |-> ProcessItem(parsed[i])]
       IN  [ok |-> TRUE,
            value |-> FilterHotels(initialProcessed, Len(initialProcessed)),
            error |-> NoError]

cleanAndParseResponse(text) ==
  IF text = <<>>
  THEN [ok |-> FALSE, value |-> <<>>,
        error |-> Err("Empty or invalid response from AI service", -1)]
  ELSE IF MatchArray(text) = <<>>
  THEN [ok |-> FALSE, value |-> <<>>,
        error |-> Err("No JSON array found in response", -1)]
  ELSE LET cleanedText ==
             RepairPasses(TruncateToLastObject(
               InitialCleanup(MatchArray(text))))
       IN  IF cleanedText = <<>> \/ cleanedText[1].c # "["
              \/ cleanedText[Len(cleanedText)].c \notin {"]", "cut"}
           THEN [ok |-> FALSE, value |-> <<>>,
                 error |-> Err("Invalid JSON structure: Must be an array", -1)]
           ELSE IF ~JSONParse(cleanedText).ok
           THEN [ok |-> FALSE, value |-> <<>>,
                 error |-> ParseFailure(Err("Invalid JSON near [...]", -1))]
           ELSE ProcessParsed(JSONParse(cleanedText).items)

-----------------------------------------------------------------------------
(* generateItinerary: lines 491-577 *)

\* a retry loop of four attempts
FourRetries == 3 + 1

MAX_RETRIES == 3

RETRY_DELAY == 1000

Paces == {"relaxed", "balanced", "intensive"}

\* the values a caller can pass as pace: the type of line 379 is erased
\* when the program is built
PaceValues == Paces \cup {"fast"}

\* the doubles 0.7, 1 and 1.3 of lines 387-391, in tenths
paceMultiplier(p) ==
  CASE p = "relaxed" -> 7
    [] p = "balanced" -> 10
    [] p = "intensive" -> 13

\* the integers d of 30..480 for which the double d * 0.7 is the double just
\* below a half that the exact product lies on, so that Math.round goes down
RelaxedBelowHalf == {45, 85, 165, 175, 325, 335, 345, 355, 365}

\* Math.round((estimatedDuration || 120) * paceMultiplier[pace]), line 546;
\* paceMultiplier[pace] is undefined for a pace that is not a key of the
\* table, and the product with undefined is NaN
ScaleDuration(estimatedDuration, p) ==
  LET d == IF estimatedDuration = 0 THEN 120 ELSE estimatedDuration
  IN  IF p \notin Paces THEN NaN
      ELSE IF p = "relaxed" /\ d \in RelaxedBelowHalf
      THEN RoundDiv(d * paceMultiplier(p), 10) - 1
      ELSE RoundDiv(d * paceMultiplier(p), 10)

\* lines 493-503
startingLocation(start) ==
  [name             |-> start,
   description      |-> <<"S", "t", "a", "r", "t", "i", "n", "g", " ", "p", "o",
                          "i", "n", "t", " ", "o", "f", " ", "t", "h", "e",
                          " ", "j", "o", "u", "r", "n", "e", "y", ".">>,
   dayIndex         |-> 0,
   address          |-> start,
   isStartingPoint  |-> TRUE,
   isHotel          |-> FALSE,
   estimatedDuration |-> 30,
   bestTimeToVisit  |-> <<"m", "o", "r", "n", "i", "n", "g">>,
   travelTimeToNext |-> 0]

ReferencesStart(name, start) == includes(toLowerCase(name), toLowerCase(start))

\* lines 491-505
WithStartingPoint(parsedResponse, start) ==
  IF parsedResponse = <<>> \/ ~ReferencesStart(parsedResponse[1].name, start)
  THEN <<startingLocation(start)>> \o parsedResponse
  ELSE parsedResponse

\* Math.max(0, Math.min(duration - 1, location.dayIndex)), line 513
ClampDay(dayIndex, days) == Max(0, Min(DayUnit * (days - 1), dayIndex))

\* Number(part) for a part of the split: a string of digits between white
\* space is its value, white space alone is 0, anything else is NaN (-1 here)
ToNumber(part) ==
  LET s == trim(part)
  IN  IF s = <<>> THEN 0
      ELSE IF \A i \in 1..Len(s) : IsDigit(s[i]) THEN DigitsVal(s)
      ELSE -1

\* the parts of s.split(':'): the first two
FirstPart(s) ==
  LET i == CHOOSE i \in 1..Len(s) : s[i] = ":" /\ \A k \in 1..(i - 1) : s[k] # ":"
  IN  Sub(s, 1, i - 1)

SecondPart(s) ==
  LET i == CHOOSE i \in 1..Len(s) : s[i] = ":" /\ \A k \in 1..(i - 1) : s[k] # ":"
      rest == Sub(s, i + 1, Len(s))
  IN  IF \E k \in 1..Len(rest) : rest[k] = ":"
      THEN FirstPart(rest) ELSE rest

\* format(date, 'h:mm a') for a time of day given in minutes
FormatTime(minutesOfDay) ==
  LET h == minutesOfDay \div 60
      m == minutesOfDay % 60
      h12 == ((h + 11) % 12) + 1
      hourText == IF h12 >= 10 THEN <<"1", Digits[h12 - 10 + 1]>>
                  ELSE <<Digits[h12 + 1]>>
  IN  hourText \o <<":", Digits[(m \div 10) + 1], Digits[(m % 10) + 1], " ">>
        \o (IF h < 12 THEN <<"A", "M">> ELSE <<"P", "M">>)

\* lines 526-534
formattedTime(bestTimeToVisit) ==
  LET low == toLowerCase(bestTimeToVisit)
  IN  IF includes(low, <<":">>)
      THEN LET hours == ToNumber(FirstPart(low))
               minutes == ToNumber(SecondPart(low))
           IN  IF hours = -1 THEN bestTimeToVisit
               ELSE FormatTime((hours * 60 + Max(minutes, 0)) % 1440)
      ELSE low

\* the body of the map of lines 508-550; index is 0-based
ProcessLocation(location, index, length, start, days, p) ==
  LET baseLocation ==
        [name            |-> location.name,
         description     |-> location.description,
         dayIndex        |-> ClampDay(location.dayIndex, days),
         address         |-> location.address,
         isStartingPoint |-> ReferencesStart(location.name, start),
         isHotel         |-> location.isHotel]
  IN  IF location.isHotel THEN baseLocation
      ELSE LET time == formattedTime(location.bestTimeToVisit)
               baseTime == getBaseTravelTime(Num(location.travelTimeToNext),
                                             Str(location.description))
               exactTravelTime == calculateExactTravelTime(baseTime, isRushHour(time))
           IN  [name             |-> baseLocation.name,
                description      |-> baseLocation.description,
                dayIndex         |-> baseLocation.dayIndex,
                address          |-> baseLocation.address,
                isStartingPoint  |-> baseLocation.isStartingPoint,
                isHotel          |-> FALSE,
                estimatedDuration |-> ScaleDuration(location.estimatedDuration, p),
                bestTimeToVisit  |-> time,
                travelTimeToNext |-> IF index < length - 1
                                     THEN exactTravelTime ELSE 0]

processedResponse(parsedResponse, start, days, p) ==
  [i \in 1..Len(parsedResponse) |->
     ProcessLocation(parsedResponse[i], i - 1, Len(parsedResponse), start, days, p)]

-----------------------------------------------------------------------------
(* generateItinerary: the sort of lines 552-577 *)

\* the primary weight of a character in the collation of localeCompare:
\* white space, then punctuation, then digits, then letters without case
CharWeight(c) ==
  IF IsSpace(c) THEN 1
  ELSE IF IsDigit(c) THEN 10 + DigitVal(c)
  ELSE IF \E i \in 1..26 : Lower[i] = toLowerCaseChar(c)
  THEN 20 + (CHOOSE i \in 1..26 : Lower[i] = toLowerCaseChar(c))
  ELSE 2

RECURSIVE CompareWeights(_, _)
CompareWeights(a, b) ==
  IF a = <<>> /\ b = <<>> THEN 0
  ELSE IF a = <<>> THEN -1
  ELSE IF b = <<>> THEN 1
  ELSE IF CharWeight(a[1]) < CharWeight(b[1]) THEN -1
  ELSE IF CharWeight(a[1]) > CharWeight(b[1]) THEN 1
  ELSE CompareWeights(Tail(a), Tail(b))

RECURSIVE CompareCase(_, _)
\* the tie-break of equal letters: lower case before upper case
CompareCase(a, b) ==
  IF a = <<>> \/ b = <<>> THEN 0
  ELSE IF a[1] = b[1] THEN CompareCase(Tail(a), Tail(b))
  ELSE IF a[1] = toLowerCaseChar(a[1]) THEN -1
  ELSE 1

localeCompare(a, b) ==
  IF CompareWeights(a, b) # 0 THEN CompareWeights(a, b) ELSE CompareCase(a, b)

\* a.bestTimeToVisit || ''
TimeOf(loc) == IF loc.isHotel THEN <<>> ELSE loc.bestTimeToVisit

\* the comparator of lines 553-577
compare(a, b, end, days) ==
  IF a.dayIndex # b.dayIndex THEN a.dayIndex - b.dayIndex
  ELSE IF a.dayIndex = 0 /\ a.isStartingPoint THEN -1
  ELSE IF a.dayIndex = 0 /\ b.isStartingPoint THEN 1
  ELSE IF /\ a.dayIndex # 0
          /\ a.dayIndex = DayUnit * (days - 1)
          /\ includes(toLowerCase(a.name), toLowerCase(end))
  THEN 1
  ELSE IF /\ a.dayIndex # 0
          /\ a.dayIndex = DayUnit * (days - 1)
          /\ includes(toLowerCase(b.name), toLowerCase(end))
  THEN -1
  ELSE IF a.dayIndex < DayUnit * (days - 1) /\ a.isHotel /\ ~b.isHotel THEN 1
  ELSE IF a.dayIndex < DayUnit * (days - 1) /\ ~a.isHotel /\ b.isHotel THEN -1
  ELSE localeCompare(TimeOf(a), TimeOf(b))

Sign(x) == IF x < 0 THEN -1 ELSE IF x > 0 THEN 1 ELSE 0

\* The comparator orders the entries of list consistently: on every two and
\* three entries at different positions it is antisymmetric and transitive.
\* Array.prototype.sort is a stable sort, and with such a comparator every
\* engine returns the same list.
ConsistentOn(list, end, days) ==
  LET c(i, j) == Sign(compare(list[i], list[j], end, days))
      n == Len(list)
  IN  /\ \A i, j \in 1..n : i # j => c(i, j) = -c(j, i)
      /\ \A i, j, k \in 1..n :
           (i # j /\ j # k /\ i # k) =>
             /\ (c(i, j) <= 0 /\ c(j, k) <= 0 => c(i, k) <= 0)
             /\ (c(i, j) = 0 /\ c(j, k) = 0 => c(i, k) = 0)

RECURSIVE InsertSorted(_, _, _, _)
\* x put into the sorted list after the last entry that is not after x
InsertSorted(sorted, x, end, days) ==
  IF sorted = <<>> THEN <<x>>
  ELSE IF compare(sorted[Len(sorted)], x, end, days) <= 0
  THEN Append(sorted, x)
  ELSE Append(InsertSorted(SubSeq(sorted, 1, Len(sorted) - 1), x, end, days),
              sorted[Len(sorted)])

RECURSIVE StableSort(_, _, _, _)
\* the first k entries of list, sorted
StableSort(list, k, end, days) ==
  IF k = 0 THEN <<>>
  ELSE InsertSorted(StableSort(list, k - 1, end, days), list[k], end, days)

AnyOrder(list) ==
  LET n == Len(list)
  IN  {[i \in 1..n |-> list[p[i]]] :
         p \in {q \in [1..n -> 1..n] : \A i, j \in 1..n : i # j => q[i] # q[j]}}

\* processedResponse.sort(comparator): the sorted list, and with a
\* comparator that is not consistent an order the engine defines
SortOutcomes(list, end, days) ==
  IF ConsistentOn(list, end, days)
  THEN {StableSort(list, Len(list), end, days)}
  ELSE AnyOrder(list)

-----------------------------------------------------------------------------
(* The inputs of the model *)

MaxItems == 2

MaxDays == 3

StartPoints == {<<"P">>}

EndPoints == {<<"P">>, <<"a">>}

HotelH == <<"[", "H", "O", "T", "E", "L", "]", " ", "h">>

HotelP == <<"[", "h", "o", "t", "e", "l", "]", " ", "P">>

Morning == <<"m", "o", "r", "n", "i", "n", "g">>

\* an element as the generator writes it: a name, a dayIndex (in units of
\* 1/DayUnit), a time of day, and 60 and 20 minutes of duration and travel
Element(name, day, time) ==
  [name |-> Str(name), description |-> Str(<<"d">>), address |-> Str(<<"s">>),
   dayIndex |-> Num(day), isStartingPoint |-> Undefined,
   estimatedDuration |-> Num(60), travelTimeToNext |-> Num(20),
   bestTimeToVisit |-> time]

\* the elements the arrays of the model are made of: the start point on day
\* 0 and on day 1, an attraction, and hotels on day -1 and day 0, one of
\* them with the start point in its name
Pool ==
  {Element(<<"P">>, 0, Str(Morning)),
   Element(<<"P">>, DayUnit, Str(Morning)),
   Element(<<"a">>, 0, Str(<<"2", " ", "P", "M">>)),
   Element(HotelH, -DayUnit, Undefined),
   Element(HotelH, 0, Undefined),
   Element(HotelP, 0, Undefined)}

\* one attraction with the fields of the claims about clamping
TimingElement(dur, travel, time, desc) ==
  [Element(<<"a">>, 0, time) EXCEPT !.estimatedDuration = dur,
                                    !.travelTimeToNext = travel,
                                    !.description = desc]

\* the elements that stand alone in an array
Singles ==
  LET Durations == {Undefined, Num(-5), Num(0), Num(45), Num(480), Num(100000),
                    Str(<<"9", "0">>)}
      TravelTimes == {Undefined, Num(-10), Num(0), Num(3), Num(129), Num(100000),
                      Str(<<"2", "0", " ", "m", "i", "n">>),
                      Str(<<"s", "h", "o", "r", "t">>),
                      Str(<<"f", "a", "r">>)}
      Times == {Undefined, Str(Morning), Str(<<"0", "9", ":", "0", "0">>),
                Str(<<"5", " ", "P", "M">>), Str(<<":", "3", "0">>)}
      Descriptions == {Undefined, Str(<<"1", ".", "5", " ", "k", "m">>),
                       Str(<<"1", "2", "k", "m">>),
                       Str(<<"5", ".", "0", " ", "K", "M">>)}
  IN  {TimingElement(d, Num(20), Str(Morning), Undefined) : d \in Durations}
        \cup {TimingElement(Num(60), tt, tm, Undefined) :
                tt \in TravelTimes, tm \in Times}
        \cup {TimingElement(Num(60), tt, Undefined, ds) :
                tt \in {Undefined, Str(<<"f", "a", "r">>)}, ds \in Descriptions}
        \cup {Element(<<"a">>, 1, Str(Morning)),
              Element(<<"a">>, 4 * DayUnit, Str(Morning)),
              Element(<<>>, 0, Str(Morning))}

\* the lists of up to MaxItems different elements of a pool
ListsOf(pool) ==
  UNION {{l \in [1..n -> pool] : \A i, j \in 1..n : i # j => l[i] # l[j]} :
           n \in 0..MaxItems}

\* the lists of distinct elements of Pool, the lists of one timing element,
\* lists of a timing element followed by a stop of the next day, and an
\* afternoon stop followed by a morning stop of the same day; an element of
\* a blank name; a valid element followed by one without name or dayIndex
Lists ==
  ListsOf(Pool)
    \cup {<<e>> : e \in Singles}
    \cup {<<TimingElement(Num(60), tt, tm, Undefined),
            Element(<<"P">>, DayUnit, Str(Morning))>> :
            tt \in {Num(20), Num(129)},
            tm \in {Str(Morning), Str(<<"5", " ", "P", "M">>)}}
    \cup {<<Element(<<"a">>, 0, Str(<<"2", " ", "P", "M">>)),
            Element(<<"b">>, 0, Str(Morning))>>}
    \cup {<<Element(<<" ">>, 0, Str(Morning))>>}
    \cup {<<Element(<<"P">>, 0, Str(Morning)), e>> :
            e \in {Element(<<>>, 0, Str(Morning)),
                   [Element(<<"a">>, 0, Str(Morning)) EXCEPT !.name = Undefined],
                   [Element(<<"a">>, 0, Str(Morning)) EXCEPT !.dayIndex = Undefined],
                   [Element(<<"a">>, 0, Str(Morning)) EXCEPT
                      !.dayIndex = Str(<<"o", "n", "e">>)]}}

RECURSIVE ObjectsText(_)
\* the objects of a list, separated by commas
ObjectsText(items) ==
  IF items = <<>> THEN <<>>
  ELSE <<Ch("{"), Body(items[1]), Ch("}")>>
         \o (IF Len(items) > 1 THEN <<Ch(",")>> ELSE <<>>)
         \o ObjectsText(Tail(items))

\* the text of a complete array
ArrayText(items) == <<Ch("[")>> \o ObjectsText(items) \o <<Ch("]")>>

\* the text of an array cut off inside the object that follows items: the
\* last "{" is not closed and no "]" closes the array
TruncatedText(items) ==
  <<Ch("[")>> \o ObjectsText(items)
    \o (IF items = <<>> THEN <<>> ELSE <<Ch(",")>>)
    \o <<Ch("{"), Ch("\""), Ch("x")>>

\* the arrays that are cut off, over three elements
CutLists ==
  ListsOf({Element(<<"P">>, 0, Str(Morning)),
           Element(<<"a">>, 0, Str(<<"2", " ", "P", "M">>)),
           Element(HotelH, 0, Undefined)})

MaxCommas == 3

RECURSIVE CommaObjects(_, _)
\* the objects of a list, separated by runs of between commas
CommaObjects(items, between) ==
  IF items = <<>> THEN <<>>
  ELSE <<Ch("{"), Body(items[1]), Ch("}")>>
         \o (IF Len(items) > 1 THEN [i \in 1..between |-> Ch(",")] ELSE <<>>)
         \o CommaObjects(Tail(items), between)

\* the text of an array with runs of commas between its objects and a run
\* of last commas before its closing bracket
CommaText(items, between, last) ==
  <<Ch("[")>> \o CommaObjects(items, between)
    \o [i \in 1..last |-> Ch(",")] \o <<Ch("]")>>

\* trailing sentences: plain prose, and prose with a bracketed word
Proses == {<<Ch("x"), Ch(" "), Ch("x")>>,
           <<Ch("x"), Ch(" "), Ch("["), Ch("x"), Ch("]"), Ch("x")>>}

\* a fence with the word json, the array, the closing fence and a sentence
FencedText(items, prose) ==
  <<Ch("fence"), Ch("json"), Ch("\n")>> \o ArrayText(items)
    \o <<Ch("\n"), Ch("fence"), Ch("\n")>> \o prose

Texts ==
  {ArrayText(l) : l \in Lists}
    \cup {TruncatedText(l) : l \in CutLists}
    \cup {CommaText(l, between, last) :
            l \in {<<Element(<<"P">>, 0, Str(Morning))>>,
                   <<Element(<<"P">>, 0, Str(Morning)),
                     Element(<<"a">>, 0, Str(<<"2", " ", "P", "M">>))>>},
            between \in 1..MaxCommas, last \in 0..(MaxCommas - 1)}
    \cup {FencedText(l, prose) : l \in CutLists \ {<<>>}, prose \in Proses}
    \cup {<<Ch("x"), Ch("x")>>, <<Ch("["), Ch("x"), Ch("]")>>}

MsgQuota == "AI generation limit reached. Please try again later or continue with manual planning."

\* what callGoogleAI delivers: an error (lines 82-90), or data with the
\* text of the first candidate, <<>> when there is none
Responses ==
  {[kind |-> "error", error |-> Err(MsgQuota, -1), text |-> <<>>]}
    \cup {[kind |-> "data", error |-> NoError, text |-> t] : t \in Texts \cup {<<>>}}

NoResponse == [kind |-> "none", error |-> NoError, text |-> <<>>]

-----------------------------------------------------------------------------
(* generateItinerary: the run *)

MsgNoKey == "Google AI API key is not configured"

MsgNoText == "No response received from Google AI"

MsgExhausted == "Failed to generate itinerary after 3 attempts. Last error: "

\* the error a run rejects with: its message is msg followed by the message
\* of last
Thrown(msg, last) == [msg |-> msg, last |-> last]

NoThrown == Thrown("", NoError)

\* lines 482-489 of one attempt: [ok, value, error]
AttemptOutcome(r) ==
  IF r.kind = "error" THEN [ok |-> FALSE, value |-> <<>>, error |-> r.error]
  ELSE IF r.text = <<>>
  THEN [ok |-> FALSE, value |-> <<>>, error |-> Err(MsgNoText, -1)]
  ELSE cleanAndParseResponse(r.text)

\* the lists an attempt with a parsed response can return (lines 491-577)
Itineraries(parsedResponse, start, end, days, p) ==
  SortOutcomes(processedResponse(WithStartingPoint(parsedResponse, start),
                                 start, days, p),
               end, days)

\* a catch that keeps the first error caught
KeepsFirstError(previous, error) ==
  IF previous = NoError THEN error ELSE previous

\* the error caught at line 578 becomes lastError
CaughtError(previous, error) == error

\* AttemptOutcome and Itineraries, tabulated over the inputs of the model
OutcomeOf == [r \in Responses |-> AttemptOutcome(r)]

ItinerariesOf ==
  [v \in {OutcomeOf[r].value : r \in {q \in Responses : OutcomeOf[q].ok}},
   start \in StartPoints, end \in EndPoints,
   days \in 1..MaxDays, p \in PaceValues |-> Itineraries(v, start, end, days, p)]

\* the names of the entries of a generated itinerary: the departure point,
\* which is the start point and the end point (ItineraryBuilder, lines
\* 330-331), and a place
AiNames == {<<"P">>, <<"a">>}

\* the itineraries a run resolves with: the departure point, the place, and
\* the departure point again as the end; without the end; the place alone
AiItineraries ==
  LET Entry(n) == [name |-> n, dayIndex |-> 0, estimatedDuration |-> 60]
  IN  {<<Entry(<<"P">>), Entry(<<"a">>), Entry(<<"P">>)>>,
       <<Entry(<<"P">>), Entry(<<"a">>)>>,
       <<Entry(<<"a">>)>>}

\* before any call of optimizeItinerary
NoOptimized ==
  [locations |-> <<>>, daysCount |-> 1, pace |-> "balanced", clusters |-> <<>>,
   optimizedDays |-> <<>>, delivered |-> FALSE, error |-> FALSE]

Init ==
  /\ pc = "idle"
  /\ apiKey = TRUE
  /\ startPoint = <<"P">>
  /\ endPoint = <<"P">>
  /\ duration = 1
  /\ pace = "balanced"
  /\ attempt = 0
  /\ lastError = NoError
  /\ response = NoResponse
  /\ returned = <<>>
  /\ thrown = NoThrown
  /\ callsIssued = 0
  /\ failures = 0
  /\ waited = <<>>
  /\ route = [input |-> <<>>, output |-> <<>>]
  /\ optimized = NoOptimized
  /\ rushHour = [hour |-> 0, timeStr |-> <<>>, result |-> FALSE]
  /\ scanner = NoScan
  /\ generator = [isGenerating |-> FALSE, error |-> "",
                  showQuotaError |-> FALSE, showConfigError |-> FALSE,
                  existingLocationMap |-> [n \in AiNames |-> 0], itinerary |-> <<>>,
                  outcome |-> "none", invoked |-> 0]
  /\ builder = [locations |-> <<>>, mustVisitPlaces |-> <<>>, uuids |-> 0]

\* a call that goes to its first attempt whether the key is set or not
CallsWithoutKey(start, end, days, p, key) ==
  /\ pc = "idle"
  /\ apiKey' = key
  /\ startPoint' = start
  /\ endPoint' = end
  /\ duration' = days
  /\ pace' = p
  /\ pc' = "calling"
  /\ attempt' = 1
  /\ callsIssued' = 1
  /\ thrown' = NoThrown
  /\ UNCHANGED <<lastError, response, returned, failures, waited, route, optimized,
                 rushHour,
                 scanner,
                 generator,
                 builder>>

\* a call of generateItinerary (lines 374-385, and 476-482 up to the await)
Generate(start, end, days, p, key) ==
  /\ pc = "idle"
  /\ apiKey' = key
  /\ startPoint' = start
  /\ endPoint' = end
  /\ duration' = days
  /\ pace' = p
  /\ IF key
     THEN /\ pc' = "calling"
          /\ attempt' = 1
          /\ callsIssued' = 1
          /\ thrown' = NoThrown
     ELSE /\ pc' = "failed"
          /\ attempt' = 0
          /\ callsIssued' = 0
          /\ thrown' = Thrown(MsgNoKey, NoError)
  /\ UNCHANGED <<lastError, response, returned, failures, waited, route, optimized,
                 rushHour,
                 scanner,
                 generator,
                 builder>>

\* callGoogleAI delivers r and the attempt gets through: the run returns
\* (line 553). lastError is a local that nothing reads once the run has
\* returned: it ends with the run.
AttemptReturns(r) ==
  /\ pc = "calling"
  /\ OutcomeOf[r].ok
  /\ \E sorted \in ItinerariesOf[OutcomeOf[r].value, startPoint, endPoint,
                                 duration, pace] :
       returned' = sorted
  /\ response' = r
  /\ pc' = "returned"
  /\ lastError' = NoError
  /\ UNCHANGED <<apiKey, startPoint, endPoint, duration, pace, attempt,
                 thrown, callsIssued, failures, waited, route,
                 optimized, rushHour,
                 scanner,
                 generator,
                 builder>>

\* callGoogleAI delivers r and the attempt throws: the catch of lines
\* 578-586, and after the last attempt the throw of line 589
AttemptFails(r) ==
  /\ pc = "calling"
  /\ ~OutcomeOf[r].ok
  /\ response' = r
  /\ lastError' = CaughtError(lastError, OutcomeOf[r].error)
  /\ failures' = failures + 1
  /\ IF attempt < MAX_RETRIES
     THEN /\ pc' = "waiting"
          /\ thrown' = thrown
     ELSE /\ pc' = "failed"
          /\ thrown' = Thrown(MsgExhausted, lastError')
  /\ UNCHANGED <<apiKey, startPoint, endPoint, duration, pace, attempt,
                 returned, callsIssued, waited, route, optimized, rushHour,
                 scanner,
                 generator,
                 builder>>

\* a delay of RETRY_DELAY after every failed attempt
SameDelayElapsed ==
  /\ pc = "waiting"
  /\ waited' = Append(waited, RETRY_DELAY)
  /\ attempt' = attempt + 1
  /\ callsIssued' = callsIssued + 1
  /\ response' = NoResponse
  /\ pc' = "calling"
  /\ UNCHANGED <<apiKey, startPoint, endPoint, duration, pace, lastError,
                 returned, thrown, failures, route, optimized, rushHour,
                 scanner,
                 generator,
                 builder>>

\* the delay of line 584 is over: the loop goes on to the next attempt,
\* which has no response yet, and to its call
DelayElapsed ==
  /\ pc = "waiting"
  /\ waited' = Append(waited, RETRY_DELAY * attempt)
  /\ attempt' = attempt + 1
  /\ callsIssued' = callsIssued + 1
  /\ response' = NoResponse
  /\ pc' = "calling"
  /\ UNCHANGED <<apiKey, startPoint, endPoint, duration, pace, lastError,
                 returned, thrown, failures, route, optimized, rushHour,
                 scanner,
                 generator,
                 builder>>

Next ==
  \/ \E start \in StartPoints, end \in EndPoints, days \in 1..MaxDays,
        p \in PaceValues, key \in BOOLEAN :
       Generate(start, end, days, p, key)
  \/ \E r \in Responses : AttemptReturns(r)
  \/ \E r \in Responses : AttemptFails(r)
  \/ DelayElapsed

Spec == Init /\ [][Next]_vars

-----------------------------------------------------------------------------
(* The manual path: optimizeRoute of SmartItineraryOptimizer.  The places  *)
(* of the model lie on the great circle made of the meridians 0 and 180,   *)
(* at whole degrees of latitude, so that the central angle between two of  *)
(* them is a whole number of degrees.  Distances are held in degrees of    *)
(* arc (R * c with c in degrees).                                          *)

\* the position of a place on the circle, in degrees from (0, 0)
ArcPosition(latitude, longitude) ==
  IF longitude = 0 THEN latitude ELSE 180 - latitude

\* the haversine formula in exact arithmetic: the central angle
GeoDistance(lat1, lon1, lat2, lon2) ==
  LET d == ArcPosition(lat1, lon1) - ArcPosition(lat2, lon2)
      turn == (IF d < 0 THEN -d ELSE d) % 360
  IN  Min(turn, 360 - turn)

\* Latitudes at which, for a place and its antipode, the sum a of lines
\* 356-361 is sin(lat)^2 + cos(lat)^2 rounded to 1.0000000000000002 in
\* double arithmetic; at latitude 0 it is exactly 1.
\* (the set RoundsAboveOne below).
\* calculateDistance in double arithmetic: with a > 1, Math.sqrt(1 - a) of
\* line 362 is NaN, and so are c and R * c
calculateDistance(lat1, lon1, lat2, lon2) ==
  LET RoundsAboveOne == {8, -8}
  IN  IF GeoDistance(lat1, lon1, lat2, lon2) = 180 /\ lat1 \in RoundsAboveOne
      THEN NaN
      ELSE GeoDistance(lat1, lon1, lat2, lon2)

\* the matrix of lines 463-479, rows and columns counted from 0
distances(locations) ==
  [i \in 0..(Len(locations) - 1), j \in 0..(Len(locations) - 1) |->
     IF i = j THEN 0
     ELSE calculateDistance(locations[i + 1].latitude, locations[i + 1].longitude,
                            locations[j + 1].latitude, locations[j + 1].longitude)]

\* a scan that takes the first unvisited place
AnyUnvisited(d, minDistance) == minDistance = Infinity

\* distances[current][i] < minDistance (line 493); a comparison with NaN
\* is false
Nearer(d, minDistance) == d # NaN /\ d < minDistance

RECURSIVE ScanNearest(_, _, _, _, _, _)
\* the for loop of lines 492-497, from index i on: the value of nearest
ScanNearest(locations, visited, current, i, nearest, minDistance) ==
  IF i >= Len(locations) THEN nearest
  ELSE IF i \notin visited /\ Nearer(distances(locations)[current, i], minDistance)
  THEN ScanNearest(locations, visited, current, i + 1, i,
                   distances(locations)[current, i])
  ELSE ScanNearest(locations, visited, current, i + 1, nearest, minDistance)

RECURSIVE Walk(_, _, _, _)
\* the while loop of lines 485-501, entered with visited, route (routeSoFar) and current
Walk(locations, visited, routeSoFar, current) ==
  IF Cardinality(visited) >= Len(locations) THEN routeSoFar
  ELSE LET visitedNow == visited \cup {current}
           routeNow == Append(routeSoFar, locations[current + 1])
           nearest == ScanNearest(locations, visitedNow, current, 0, -1, Infinity)
       IN  IF nearest = -1 THEN routeNow
           ELSE Walk(locations, visitedNow, routeNow, nearest)

optimizeRoute(locations) ==
  IF Len(locations) <= 1 THEN locations ELSE Walk(locations, {}, <<>>, 0)

MaxStops == 3

\* the lists of up to MaxStops places, each with an id of its own; the
\* coordinates of the places: three on the meridian 0, the antipodes of
\* two of them on the meridian 180
RouteInputs ==
  LET Coordinates == {<<0, 0>>, <<3, 0>>, <<8, 0>>, <<-8, 180>>, <<0, 180>>}
  IN  UNION {{[i \in 1..n |->
                 [id |-> i, latitude |-> c[i][1], longitude |-> c[i][2]]] :
                c \in [1..n -> Coordinates]} : n \in 0..MaxStops}

\* a call of optimizeRoute
OptimizeRoute(locations) ==
  /\ route' = [input |-> locations, output |-> optimizeRoute(locations)]
  /\ UNCHANGED <<genVars, optimized, rushHour,
                 scanner,
                 generator,
                 builder>>

\* getPaceMultiplier (lines 366-375), in tenths
getPaceMultiplier(p) ==
  CASE p = "relaxed" -> 7
    [] p = "intensive" -> 13
    [] OTHER -> 10

\* every place in the first bucket
FirstCluster(index, numClusters) == 0

\* line 450
clusterIndex(index, numClusters) == index % numClusters

\* clusterLocations (lines 442-455) for numClusters >= 1: filled[n] is
\* clusters after the first n calls of the forEach callback
clusterLocations(locations, numClusters) ==
  LET filled[n \in 0..Len(locations)] ==
        IF n = 0 THEN [k \in 1..numClusters |-> <<>>]
        ELSE [filled[n - 1] EXCEPT ![clusterIndex(n - 1, numClusters) + 1] =
                                     Append(@, locations[n])]
  IN  filled[Len(locations)]

\* calculateTravelTime (lines 506-530): Math.round(distance * 2 * 60), the
\* distance being R * c km with R = 6371, that is 111.19492664 km for a
\* degree of arc
calculateTravelTime(from, to) ==
  LET distance == calculateDistance(from.latitude, from.longitude,
                                    to.latitude, to.longitude)
  IN  IF distance = NaN THEN NaN
      ELSE 13343 * distance + RoundDiv(distance * 3912, 10000)

\* a day that keeps the departure point among its locations
KeepsDeparture(optimizedLocations) == optimizedLocations

\* line 428: optimizedLocations.filter(loc => loc.id !== 'departure'), the
\* id 'departure' being 0
withoutDeparture(optimizedLocations) ==
  SelectSeq(optimizedLocations, LAMBDA loc : loc.id # 0)

\* optimizeItinerary (lines 377-440) with the departure point at (0, 0).
\* The id 'departure' is 0, a missing estimated_duration is 0, totalDuration
\* is in tenths of a minute and date in days after startDate.  With
\* daysCount < 1 clusters is empty and clusters[clusterIndex].push throws.
optimizeItinerary(locations, daysCount, p) ==
  LET multiplier == getPaceMultiplier(p)
      startLoc == [id |-> 0, latitude |-> 0, longitude |-> 0,
                   estimated_duration |-> 0]
      NotDeparture(loc) == loc.id # startLoc.id
      clusters == clusterLocations(<<startLoc>> \o locations, daysCount)
      Day(cluster, index) ==
        LET optimizedLocations ==
              optimizeRoute(IF index = 0 THEN cluster
                            ELSE SelectSeq(cluster, NotDeparture))
            length == Len(optimizedLocations)
            totalDuration[i \in 0..length] ==
              IF i = 0 THEN 0
              ELSE totalDuration[i - 1]
                     + (IF optimizedLocations[i].estimated_duration = 0 THEN 60
                        ELSE optimizedLocations[i].estimated_duration)
                         * multiplier
            totalTravelTime[i \in 0..length] ==
              IF i <= 1 THEN 0
              ELSE LET travelTime == calculateTravelTime(optimizedLocations[i - 1],
                                                         optimizedLocations[i])
                   IN  IF totalTravelTime[i - 1] = NaN \/ travelTime = NaN
                       THEN NaN
                       ELSE totalTravelTime[i - 1] + travelTime
        IN  [date            |-> index,
             locations       |-> withoutDeparture(optimizedLocations),
             totalTravelTime |-> totalTravelTime[length],
             totalDuration   |-> totalDuration[length]]
  IN  IF daysCount < 1
      THEN [locations |-> locations, daysCount |-> daysCount, pace |-> p,
            clusters |-> <<>>, optimizedDays |-> <<>>,
            delivered |-> FALSE, error |-> TRUE]
      ELSE [locations |-> locations, daysCount |-> daysCount, pace |-> p,
            clusters |-> clusters,
            optimizedDays |-> [k \in 1..daysCount |-> Day(clusters[k], k - 1)],
            delivered |-> TRUE, error |-> FALSE]

\* a run of optimizeItinerary on the props of the component; every place
\* has the estimated_duration given, 0 for none.  The button of line 540
\* starts the run and is disabled while locations is empty (line 541): the
\* run on the empty list is the function applied to it.  A run reads
\* nothing of what an earlier run has left: one run is followed, from the
\* state before any.
OptimizeItinerary(locations, estimated_duration, daysCount, p) ==
  /\ optimized = NoOptimized
  /\ optimized' =
       optimizeItinerary(
         [i \in 1..Len(locations) |->
            [id |-> locations[i].id, latitude |-> locations[i].latitude,
             longitude |-> locations[i].longitude,
             estimated_duration |-> estimated_duration]],
         daysCount, p)
  /\ UNCHANGED <<genVars, route, rushHour,
                 scanner,
                 generator,
                 builder>>

NextRoute == \E locations \in RouteInputs : OptimizeRoute(locations)

SpecRoute == Init /\ [][NextRoute]_vars

NextOptimize ==
  \E locations \in RouteInputs, estimated_duration \in {0, 90},
     daysCount \in 0..MaxDays, p \in PaceValues :
    OptimizeItinerary(locations, estimated_duration, daysCount, p)

SpecOptimize == Init /\ [][NextOptimize]_vars

\* the texts of an hour of the day: "HH:MM" on the 24-hour clock, and
\* "h am" and "h pm" on the 12-hour clock (minute = -1)
TimeText(hour, minute) ==
  LET TwoDigits(n) == <<Digits[(n \div 10) + 1], Digits[(n % 10) + 1]>>
      h == IF hour % 12 = 0 THEN 12 ELSE hour % 12
  IN  IF minute >= 0 THEN TwoDigits(hour) \o <<":">> \o TwoDigits(minute)
      ELSE (IF h >= 10 THEN TwoDigits(h) ELSE <<Digits[h + 1]>>)
             \o (IF hour < 12 THEN <<" ", "a", "m">> ELSE <<" ", "p", "m">>)

\* a call of isRushHour with the text of an hour
IsRushHour(hour, minute) ==
  /\ rushHour' = [hour |-> hour, timeStr |-> TimeText(hour, minute),
                  result |-> isRushHour(TimeText(hour, minute))]
  /\ UNCHANGED <<genVars, route, optimized,
                 scanner,
                 generator,
                 builder>>

NextRush ==
  \E hour \in 0..23, minute \in {-1, 0, 15, 30, 45} : IsRushHour(hour, minute)

SpecRush == Init /\ [][NextRush]_vars

SpecScan == Init /\ [][NextScan]_vars

-----------------------------------------------------------------------------
(* ItineraryBuilder and AiItineraryGenerator.  A location of the builder   *)
(* is [id, name, day_index, latitude, longitude, estimated_duration]; an   *)
(* id is a number, the k-th crypto.randomUUID() being k.  The generator    *)
(* holds its four state variables, the existingLocationMap of the          *)
(* handleAiItineraryGenerated closure that the run got as                   *)
(* onItineraryGenerated, and of its last run the itinerary, the outcome and *)
(* the number of calls of onItineraryGenerated.                             *)

\* the most uuids drawn, must-visit places held, and days of the trip
MaxUuids == 4

MaxPlaces == 1

TripDays == 2

\* new Map(locations.map(loc => [loc.name, loc])) (line 122), by the id of
\* the location: the last location of a name is the one the map keeps
existingLocationMap(locations) ==
  [n \in AiNames |->
     LET at == {i \in 1..Len(locations) : locations[i].name = n}
     IN  IF at = {} THEN 0
         ELSE locations[CHOOSE i \in at : \A j \in at : j <= i].id]

\* handleAiItineraryGenerated (lines 121-145) with the map of its closure;
\* uuids is the number of uuids drawn so far.  The coordinates of an
\* existing location are 0 as those of a new one.
handleAiItineraryGenerated(map, aiLocations, uuids) ==
  LET IsNew(i) == map[aiLocations[i].name] = 0
      drawn(i) == Cardinality({j \in 1..i : IsNew(j)})
  IN  [i \in 1..Len(aiLocations) |->
         [id |-> IF IsNew(i) THEN uuids + drawn(i)
                 ELSE map[aiLocations[i].name],
          name |-> aiLocations[i].name,
          day_index |-> aiLocations[i].dayIndex,
          latitude |-> 0,
          longitude |-> 0,
          estimated_duration |-> aiLocations[i].estimatedDuration]]

\* handleOptimizedItinerary (lines 147-170): the locations of the days, one
\* day after the other, each with the data of the existing location of its
\* id (the last one of that id) and the index of its day
handleOptimizedItinerary(locations, optimizedDays) ==
  LET Existing(id) ==
        LET at == {i \in 1..Len(locations) : locations[i].id = id}
        IN  locations[CHOOSE i \in at : \A j \in at : j <= i]
      OfDay(k) ==
        [i \in 1..Len(optimizedDays[k].locations) |->
           LET location == optimizedDays[k].locations[i]
           IN  [Existing(location.id) EXCEPT
                  !.name = location.name,
                  !.latitude = IF location.latitude # 0 THEN location.latitude
                               ELSE Existing(location.id).latitude,
                  !.longitude = IF location.longitude # 0 THEN location.longitude
                                ELSE Existing(location.id).longitude,
                  !.day_index = k - 1]]
      flat[k \in 0..Len(optimizedDays)] ==
        IF k = 0 THEN <<>> ELSE flat[k - 1] \o OfDay(k)
  IN  flat[Len(optimizedDays)]

\* what the generator renders (lines 75-149): a panel without the button,
\* the button disabled, or the button enabled
GenerateButton ==
  IF generator.showConfigError \/ generator.showQuotaError THEN "hidden"
  ELSE IF generator.isGenerating \/ builder.mustVisitPlaces = <<>>
  THEN "disabled"
  ELSE "enabled"

\* handleAddMustVisitPlace (lines 76-83)
AddMustVisitPlace(name) ==
  /\ Len(builder.mustVisitPlaces) < MaxPlaces
  /\ builder' = [builder EXCEPT !.mustVisitPlaces = Append(@, name)]
  /\ UNCHANGED <<genVars, route, optimized, rushHour, scanner, generator>>

\* handleRemoveMustVisitPlace (lines 85-87)
RemoveMustVisitPlace(index) ==
  /\ index < Len(builder.mustVisitPlaces)
  /\ builder' = [builder EXCEPT !.mustVisitPlaces =
                    SubSeq(@, 1, index) \o SubSeq(@, index + 2, Len(@))]
  /\ UNCHANGED <<genVars, route, optimized, rushHour, scanner, generator>>

\* handleDropLocation (lines 98-119)
DropLocation(locationId, targetDayIndex) ==
  /\ \E i \in 1..Len(builder.locations) : builder.locations[i].id = locationId
  /\ builder' = [builder EXCEPT !.locations =
                    [i \in 1..Len(@) |->
                       IF @[i].id = locationId
                       THEN [@[i] EXCEPT !.day_index = targetDayIndex]
                       ELSE @[i]]]
  /\ UNCHANGED <<genVars, route, optimized, rushHour, scanner, generator>>

\* onLocationRemove (lines 383-385)
RemoveLocation(locationId) ==
  /\ \E i \in 1..Len(builder.locations) : builder.locations[i].id = locationId
  /\ builder' = [builder EXCEPT !.locations =
                    SelectSeq(@, LAMBDA loc : loc.id # locationId)]
  /\ UNCHANGED <<genVars, route, optimized, rushHour, scanner, generator>>

\* a run of the optimizer on the locations of the builder (its button is
\* disabled while there are none), and handleOptimizedItinerary on the days
\* it delivers
OptimizedItinerary ==
  /\ builder.locations # <<>>
  /\ builder' = [builder EXCEPT !.locations =
                    handleOptimizedItinerary(
                      @, optimizeItinerary(@, TripDays, "balanced").optimizedDays)]
  /\ UNCHANGED <<genVars, route, optimized, rushHour, scanner, generator>>

\* handleGenerate up to its await (lines 40-58), from a click on the button
HandleGenerate ==
  /\ GenerateButton = "enabled"
  /\ generator' =
       IF builder.mustVisitPlaces = <<>>
       THEN [generator EXCEPT !.error = "Please add at least one must-visit place before generating an itinerary"]
       ELSE [isGenerating |-> TRUE, error |-> "",
             showQuotaError |-> FALSE, showConfigError |-> FALSE,
             existingLocationMap |-> existingLocationMap(builder.locations),
             itinerary |-> <<>>, outcome |-> "pending", invoked |-> 0]
  /\ UNCHANGED <<genVars, route, optimized, rushHour, scanner, builder>>

\* generateItinerary resolves with itinerary: lines 59 and 70-72, and
\* handleAiItineraryGenerated
GenerateResolves(itinerary) ==
  /\ generator.isGenerating
  /\ LET newLocations ==
           handleAiItineraryGenerated(generator.existingLocationMap, itinerary,
                                      builder.uuids)
         drawn == Cardinality({i \in 1..Len(itinerary) :
                                 generator.existingLocationMap[itinerary[i].name] = 0})
     IN  /\ builder.uuids + drawn <= MaxUuids
         /\ builder' = [builder EXCEPT !.locations = newLocations,
                                       !.uuids = @ + drawn]
  /\ generator' = [generator EXCEPT !.isGenerating = FALSE,
                                    !.itinerary = itinerary,
                                    !.outcome = "resolved",
                                    !.invoked = @ + 1]
  /\ UNCHANGED <<genVars, route, optimized, rushHour, scanner>>

\* a rejection after which isGenerating stays true
RejectsWithoutFinally(err) ==
  /\ generator.isGenerating
  /\ generator' =
       [generator EXCEPT
          !.outcome = "rejected",
          !.showConfigError = (err.msg = MsgNoKey),
          !.showQuotaError = (err.msg # MsgNoKey /\ err.last.msg = MsgQuota),
          !.error = IF err.msg = MsgNoKey \/ err.last.msg = MsgQuota THEN ""
                    ELSE err.last.msg]
  /\ UNCHANGED <<genVars, route, optimized, rushHour, scanner, builder>>

\* generateItinerary rejects with the error err: lines 60-72.  The message
\* of err is err.msg followed by the message of err.last; of the messages
\* of the model MsgNoKey includes 'API key' and MsgQuota 'limit reached'.
GenerateRejects(err) ==
  /\ generator.isGenerating
  /\ generator' =
       [generator EXCEPT
          !.isGenerating = FALSE,
          !.outcome = "rejected",
          !.showConfigError = (err.msg = MsgNoKey),
          !.showQuotaError = (err.msg # MsgNoKey /\ err.last.msg = MsgQuota),
          !.error = IF err.msg = MsgNoKey \/ err.last.msg = MsgQuota THEN ""
                    ELSE err.last.msg]
  /\ UNCHANGED <<genVars, route, optimized, rushHour, scanner, builder>>

NextBuilder ==
  \/ \E name \in AiNames \ {<<"P">>} : AddMustVisitPlace(name)
  \/ \E index \in 0..(MaxPlaces - 1) : RemoveMustVisitPlace(index)
  \/ \E locationId \in 1..MaxUuids, targetDayIndex \in 0..(TripDays - 1) :
       DropLocation(locationId, targetDayIndex)
  \/ \E locationId \in 1..MaxUuids : RemoveLocation(locationId)
  \/ OptimizedItinerary
  \/ HandleGenerate
  \/ \E itinerary \in AiItineraries : GenerateResolves(itinerary)
  \/ \E err \in {Thrown(MsgNoKey, NoError),
                  Thrown(MsgExhausted, Err(MsgQuota, -1)),
                  Thrown(MsgExhausted, Err(MsgNoText, -1))} :
       GenerateRejects(err)

SpecBuilder == Init /\ [][NextBuilder]_vars

\* a run of generateItinerary settles: every fetch ends, and the loop makes
\* at most MAX_RETRIES attempts with delays that end
FairBuilder ==
  SpecBuilder
    /\ WF_vars((\E itinerary \in AiItineraries : GenerateResolves(itinerary))
                 \/ (\E err \in {Thrown(MsgNoKey, NoError),
                                  Thrown(MsgExhausted, Err(MsgQuota, -1)),
                                  Thrown(MsgExhausted, Err(MsgNoText, -1))} :
                       GenerateRejects(err)))

-----------------------------------------------------------------------------
(* Properties of cleanAndParseResponse and generateItinerary *)

\* C1: whatever estimatedDuration, travelTimeToNext and bestTimeToVisit the
\* elements of the array carry, every attraction that cleanAndParseResponse
\* returns has 30 <= estimatedDuration <= 480 and 5 <= travelTimeToNext <= 180.
C1_TimingsWithinBounds ==
  LET out == cleanAndParseResponse(response.text)
  IN  (response.kind = "data" /\ out.ok) =>
        \A i \in 1..Len(out.value) :
          ~out.value[i].isHotel =>
            /\ out.value[i].estimatedDuration >= 30
            /\ out.value[i].estimatedDuration <= 480
            /\ out.value[i].travelTimeToNext >= 5
            /\ out.value[i].travelTimeToNext <= 180

\* a travelTimeToNext of 100000 in the array has come back as 180
C1_HugeTravelTimeClamped ==
  /\ response.kind = "data"
  /\ response.text =
       ArrayText(<<TimingElement(Num(60), Num(100000), Str(Morning), Undefined)>>)
  /\ cleanAndParseResponse(response.text).ok
  /\ cleanAndParseResponse(response.text).value[1].travelTimeToNext = 180

\* C22: for an array of valid elements, cleanAndParseResponse succeeds and
\* returns the processed elements in input order without the hotels that a
\* later hotel of the same dayIndex follows: every attraction is kept, and
\* of the hotels of one dayIndex exactly the last.
C22_LastHotelOfDayKept ==
  \A l \in ListsOf(Pool) \ {<<>>} :
    (response.kind = "data" /\ response.text = ArrayText(l)) =>
      LET out == cleanAndParseResponse(response.text)
          item == [i \in 1..Len(l) |-> ProcessItem(l[i])]
          Kept(i) == \/ ~item[i].isHotel
                     \/ ~\E j \in (i + 1)..Len(l) :
                           item[j].isHotel /\ item[j].dayIndex = item[i].dayIndex
          expected[k \in 0..Len(l)] ==
            IF k = 0 THEN <<>>
            ELSE expected[k - 1] \o (IF Kept(k) THEN <<item[k]>> ELSE <<>>)
      IN  out.ok /\ out.value = expected[Len(l)]

\* two hotels of day 0 in the array: only the second has come back
C22_SecondHotelOnly ==
  /\ response.kind = "data"
  /\ response.text = ArrayText(<<Element(HotelH, 0, Undefined),
                                 Element(HotelP, 0, Undefined)>>)
  /\ cleanAndParseResponse(response.text).ok
  /\ Len(cleanAndParseResponse(response.text).value) = 1
  /\ cleanAndParseResponse(response.text).value[1].name = HotelP

\* C2: in the list a run returns for a trip of duration days, every day
\* before the last has at most one hotel, whatever dayIndex the array gave
\* its hotels.
C2_OneHotelPerDay ==
  pc = "returned" =>
    \A d \in 0..(duration - 2) :
      Cardinality({i \in 1..Len(returned) :
                     returned[i].isHotel /\ returned[i].dayIndex = DayUnit * d}) <= 1

\* C3: in the list a run returns, a hotel of a day before the last is not
\* followed by an attraction of the same day.  Stated for the runs whose
\* sort has a single outcome.
C3_HotelEndsDay ==
  (/\ pc = "returned"
   /\ Cardinality(ItinerariesOf[OutcomeOf[response].value, startPoint,
                                endPoint, duration, pace]) = 1) =>
    \A i \in 1..Len(returned) :
      (returned[i].isHotel /\ returned[i].dayIndex < DayUnit * (duration - 1)) =>
        \A j \in (i + 1)..Len(returned) :
          returned[j].dayIndex = returned[i].dayIndex => returned[j].isHotel

\* C4: a run with an API key issues the external call at most 3 times; an
\* attempt whose call, parse and validation succeed ends the run with its
\* result, every attempt before it has failed, and no call follows; the run
\* rejects only once 3 attempts have failed.
C4_RetryLoop ==
  /\ [](apiKey => callsIssued <= 3)
  /\ [](pc = "returned" =>
          /\ OutcomeOf[response].ok
          /\ callsIssued = attempt
          /\ failures = attempt - 1)
  /\ []((pc = "failed" /\ apiKey) => (failures = 3 /\ callsIssued = 3))
  /\ [][(pc = "calling" /\ OutcomeOf[response'].ok) => pc' = "returned"]_vars
  /\ [][pc = "returned" => callsIssued' = callsIssued]_vars

\* a run has returned at its second attempt, after one failure and two calls
C4_ReturnedAtSecondAttempt ==
  /\ pc = "returned"
  /\ attempt = 2
  /\ callsIssued = 2
  /\ failures = 1
  /\ returned # <<>>

\* C5: a run whose 3 attempts have failed rejects with one error, whose
\* message carries the message of the failure of the third attempt.
C5_LastErrorReported ==
  (pc = "failed" /\ apiKey) =>
    /\ failures = 3
    /\ returned = <<>>
    /\ thrown = Thrown(MsgExhausted, OutcomeOf[response].error)

\* a run has rejected after three failures, the third one being a response
\* without an array
C5_RejectedAfterThree ==
  /\ pc = "failed"
  /\ failures = 3
  /\ OutcomeOf[response].error.msg = "No JSON array found in response"
  /\ thrown.msg = MsgExhausted
  /\ thrown.last.msg = "No JSON array found in response"

\* C6: for a text that is an array cut off inside an object, with at least
\* one complete object before the cut, cleanAndParseResponse does not throw
\* and returns the complete objects.
C6_TruncatedArrayRecovered ==
  \A l \in CutLists :
    (l # <<>> /\ response.kind = "data" /\ response.text = TruncatedText(l)) =>
      /\ cleanAndParseResponse(response.text).ok
      /\ cleanAndParseResponse(response.text).value = ProcessParsed(l).value

\* C7: the list optimizeRoute returns holds every location of its input
\* exactly once.
C7_RouteIsPermutation ==
  /\ Len(route.output) = Len(route.input)
  /\ \A i \in 1..Len(route.input) :
       Cardinality({j \in 1..Len(route.output) :
                      route.output[j] = route.input[i]}) = 1

\* C8: the list optimizeRoute returns starts with the first location of the
\* input, and every later location is one that was not placed before and
\* that no location still to be placed is nearer to its predecessor than.
C8_NearestNeighbour ==
  route.input # <<>> =>
    /\ route.output # <<>>
    /\ route.output[1] = route.input[1]
    /\ \A k \in 2..Len(route.output) :
         /\ \A j \in 1..(k - 1) : route.output[j] # route.output[k]
         /\ \A u \in 1..Len(route.input) :
              (\A j \in 1..(k - 1) : route.output[j] # route.input[u]) =>
                GeoDistance(route.output[k - 1].latitude,
                            route.output[k - 1].longitude,
                            route.output[k].latitude,
                            route.output[k].longitude)
                  <= GeoDistance(route.output[k - 1].latitude,
                                 route.output[k - 1].longitude,
                                 route.input[u].latitude,
                                 route.input[u].longitude)

\* a route of three places in which the third of the input, nearer to the
\* first than the second is, comes second
C8_NearerPlaceGoesFirst ==
  /\ Len(route.input) = 3
  /\ Len(route.output) = 3
  /\ route.output[2] = route.input[3]
  /\ route.output[3] = route.input[2]
  /\ GeoDistance(route.input[1].latitude, route.input[1].longitude,
                 route.input[3].latitude, route.input[3].longitude)
       < GeoDistance(route.input[1].latitude, route.input[1].longitude,
                     route.input[2].latitude, route.input[2].longitude)

\* C9: the first element of the list a run returns has dayIndex 0 and a
\* name that contains the start point.  Stated for the runs whose sort has
\* a single outcome.
C9_StartPointFirst ==
  (/\ pc = "returned"
   /\ Cardinality(ItinerariesOf[OutcomeOf[response].value, startPoint,
                                endPoint, duration, pace]) = 1) =>
    /\ returned # <<>>
    /\ returned[1].dayIndex = 0
    /\ ReferencesStart(returned[1].name, startPoint)

\* C10: every entry of the list a run returns for a trip of duration days
\* has a whole dayIndex from 0 to duration - 1.
C10_DayIndexInRange ==
  pc = "returned" =>
    \A i \in 1..Len(returned) :
      /\ returned[i].dayIndex % DayUnit = 0
      /\ returned[i].dayIndex >= 0
      /\ returned[i].dayIndex <= DayUnit * (duration - 1)

\* C11: the repair passes of lines 166-201, applied to the text they have
\* produced, give that text again.
C11_RepairIsFixedPoint ==
  (response.kind = "data" /\ MatchArray(response.text) # <<>>) =>
    LET once == RepairPasses(TruncateToLastObject(
                  InitialCleanup(MatchArray(response.text))))
    IN  RepairPasses(once) = once

\* C12: for a text made of a json fence, a well-formed array, the closing
\* fence and a trailing sentence, cleanAndParseResponse returns the elements
\* of the array, whatever the sentence.
C12_FencedArrayParsed ==
  \A l \in CutLists \ {<<>>}, prose \in Proses :
    (response.kind = "data" /\ response.text = FencedText(l, prose)) =>
      /\ cleanAndParseResponse(response.text).ok
      /\ cleanAndParseResponse(response.text).value = ProcessParsed(l).value

\* C13: every attraction of a returned list has the duration round(d * m),
\* d being the normalized duration of the element it was made from and m
\* the multiplier 0.7, 1 or 1.3 of the pace.
C13_DurationScaledByPace ==
  (pc = "returned" /\ pace \in Paces) =>
    LET made == WithStartingPoint(OutcomeOf[response].value, startPoint)
    IN  \A k \in 1..Len(returned) :
          ~returned[k].isHotel =>
            \E i \in 1..Len(made) :
              /\ ~made[i].isHotel
              /\ made[i].name = returned[k].name
              /\ returned[k].estimatedDuration
                   = RoundDiv(made[i].estimatedDuration * paceMultiplier(pace), 10)

\* C14: a run of generateItinerary whose pace is not relaxed, balanced or
\* intensive does not return a list.
C14_UnknownPaceFails == pace \notin Paces => pc # "returned"

C15_NoKeyFailsAtOnce ==
  ~apiKey =>
    /\ pc = "failed"
    /\ thrown = Thrown(MsgNoKey, NoError)
    /\ callsIssued = 0
    /\ attempt = 0
    /\ failures = 0
    /\ waited = <<>>
    /\ response = NoResponse

\* a run without a key has been rejected
C15_RejectedWithoutKey == ~apiKey /\ pc = "failed" /\ thrown.msg = MsgNoKey

\* C17: when the text is an array that JSON.parse accepts as it stands and
\* whose elements are all valid, cleanAndParseResponse succeeds and returns
\* what the validation makes of those elements: the same entries with the
\* same name, address, description and dayIndex.
C17_RepairKeepsValidArray ==
  \A l \in Lists :
    (response.kind = "data" /\ response.text = ArrayText(l)
       /\ ProcessParsed(l).ok) =>
      LET out == cleanAndParseResponse(response.text)
          Kept(v) == [i \in 1..Len(v) |->
                        <<v[i].name, v[i].address, v[i].description, v[i].dayIndex>>]
      IN  out.ok /\ Kept(out.value) = Kept(ProcessParsed(l).value)

\* C18: every attraction of a returned list has a travelTimeToNext that is
\* 0 or lies between 5 and 180.
C18_ReturnedTravelTimeBounded ==
  pc = "returned" =>
    \A k \in 1..Len(returned) :
      ~returned[k].isHotel =>
        \/ returned[k].travelTimeToNext = 0
        \/ /\ returned[k].travelTimeToNext >= 5
           /\ returned[k].travelTimeToNext <= 180

\* C20: in the list a run returns for a trip of duration days, an entry of
\* the last day whose name contains the end point comes after every entry
\* of that day whose name does not.  Stated for the runs whose sort has a
\* single outcome, and for the entries that are not the starting point.
C20_EndPointLast ==
  (/\ pc = "returned"
   /\ Cardinality(ItinerariesOf[OutcomeOf[response].value, startPoint,
                                endPoint, duration, pace]) = 1) =>
    LET IsEnd(k) ==
          /\ includes(toLowerCase(returned[k].name), toLowerCase(endPoint))
          /\ ~returned[k].isStartingPoint
        last == {k \in 1..Len(returned) :
                   returned[k].dayIndex = DayUnit * (duration - 1)}
    IN  \A i, j \in last : (IsEnd(i) /\ ~IsEnd(j)) => j < i

\* C21: in the list a run returns, an attraction that is the last stop of
\* its day has travelTimeToNext 0, and an attraction followed by a stop of
\* the same day has a positive travelTimeToNext.  Stated for the runs whose
\* sort has a single outcome.
C21_TravelTimeEndsWithDay ==
  (/\ pc = "returned"
   /\ Cardinality(ItinerariesOf[OutcomeOf[response].value, startPoint,
                                endPoint, duration, pace]) = 1) =>
    \A k \in 1..Len(returned) :
      ~returned[k].isHotel =>
        IF k < Len(returned) /\ returned[k + 1].dayIndex = returned[k].dayIndex
        THEN returned[k].travelTimeToNext > 0
        ELSE returned[k].travelTimeToNext = 0

\* C23: every entry that cleanAndParseResponse returns has a name that is
\* not empty, and an array with an element that has no name, an empty name
\* or a dayIndex that is not a number makes the attempt fail with no list.
C23_RequiredFields ==
  response.kind = "data" =>
    LET out == cleanAndParseResponse(response.text)
    IN  /\ out.ok => \A i \in 1..Len(out.value) : out.value[i].name # <<>>
        /\ \A l \in Lists :
             (/\ response.text = ArrayText(l)
              /\ \E i \in 1..Len(l) : MissingRequired(l[i])) =>
               ~out.ok /\ out.value = <<>>

\* C25: after failed attempt k (k = 1, 2) the run waits k * 1000 ms before
\* attempt k + 1 starts; the call of an attempt after the first is issued
\* only when that wait is over; no wait follows the failed third attempt.
C25_LinearBackoff ==
  /\ [](\A k \in 1..Len(waited) : waited[k] = k * 1000)
  /\ [](pc = "waiting" =>
          /\ failures = attempt
          /\ attempt \in {1, 2}
          /\ callsIssued = attempt
          /\ Len(waited) = attempt - 1)
  /\ [](pc = "calling" => Len(waited) = attempt - 1 /\ callsIssued = attempt)
  /\ [][(pc = "calling" /\ failures' = failures + 1 /\ failures' < 3) =>
          pc' = "waiting"]_vars
  /\ [][(callsIssued' # callsIssued /\ callsIssued >= 1) =>
          /\ pc = "waiting"
          /\ waited' = Append(waited, failures * 1000)
          /\ attempt' = failures + 1]_vars
  /\ []((pc = "failed" /\ apiKey) => (failures = 3 /\ waited = <<1000, 2000>>))
  /\ [][pc = "failed" => (waited' = waited /\ pc' = "failed")]_vars

\* three attempts have failed, after waits of 1000 ms and 2000 ms
C25_WaitedTwice ==
  /\ pc = "failed"
  /\ failures = 3
  /\ callsIssued = 3
  /\ waited = <<1000, 2000>>

\* C26: the totalTravelTime of every day that optimizeItinerary delivers is
\* the sum, over the consecutive pairs of the day's route, of
\* round(distance in km * 2) minutes.
C26_TwoMinutesPerKm ==
  optimized.delivered =>
    \A k \in 1..Len(optimized.optimizedDays) :
      LET dayRoute ==
            optimizeRoute(IF k = 1 THEN optimized.clusters[k]
                          ELSE withoutDeparture(optimized.clusters[k]))
          \* a degree of arc is 111.19492664 km
          Minutes(from, to) ==
            LET distance == calculateDistance(from.latitude, from.longitude,
                                              to.latitude, to.longitude)
            IN  IF distance = NaN THEN NaN
                ELSE 222 * distance + RoundDiv(distance * 38985, 100000)
          Sum[i \in 0..Len(dayRoute)] ==
            IF i <= 1 THEN 0
            ELSE IF Sum[i - 1] = NaN \/ Minutes(dayRoute[i - 1], dayRoute[i]) = NaN
            THEN NaN
            ELSE Sum[i - 1] + Minutes(dayRoute[i - 1], dayRoute[i])
      IN  optimized.optimizedDays[k].totalTravelTime = Sum[Len(dayRoute)]

\* C27: run with no locations and a day count D >= 1, optimizeItinerary
\* ends without an error and delivers D days, each with no locations.
C27_EmptyInputEmptySchedule ==
  (optimized # NoOptimized /\ optimized.locations = <<>>
     /\ optimized.daysCount >= 1) =>
    /\ ~optimized.error
    /\ optimized.delivered
    /\ Len(optimized.optimizedDays) = optimized.daysCount
    /\ \A k \in 1..optimized.daysCount :
         optimized.optimizedDays[k].locations = <<>>

\* no locations and two days: two empty days are delivered
C27_TwoEmptyDays ==
  /\ optimized.locations = <<>>
  /\ optimized.daysCount = 2
  /\ optimized.delivered
  /\ Len(optimized.optimizedDays) = 2

-----------------------------------------------------------------------------
(* Properties of isRushHour *)

\* C19: isRushHour is true for the text of an hour of the morning window
\* (8, 9) or of the evening window (16, 17, 18), and false for the text of
\* an hour outside 8..10 and 16..19.
C19_RushHourByHour ==
  rushHour.timeStr # <<>> =>
    /\ rushHour.hour \in {8, 9, 16, 17, 18} => rushHour.result
    /\ rushHour.hour \notin (8..10) \cup (16..19) => ~rushHour.result

-----------------------------------------------------------------------------
(* Properties of the brace scan *)

\* C24: after every turn of the scan, the depth counter is the number of
\* '{' less the number of '}' among the characters read that are outside
\* string literals, where a '"' that a backslash escapes opens and closes no
\* literal, and lastCompleteObjectEnd is the index of the last such '}' at
\* which the depth came back to 0, or -1; the text is cut only when the
\* depth at the end is positive and there is such an index.
C24_BraceScan ==
  LET t == scanner.text
      \* the backslashes right before position k
      Slashes(k) == {n \in 0..(k - 1) : \A j \in (k - n)..(k - 1) : t[j].c = "\\"}
      Escaped(k) == (Cardinality(Slashes(k)) - 1) % 2 = 1
      Quotes(k) == {j \in 1..(k - 1) : t[j].c = "\"" /\ ~Escaped(j)}
      InString(k) == Cardinality(Quotes(k)) % 2 = 1
      Counted(c, k) ==
        {j \in 1..k : t[j].c = c /\ ~Escaped(j) /\ ~InString(j)
                        /\ ~(c = "\\")}
      Depth(k) == Cardinality(Counted("{", k)) - Cardinality(Counted("}", k))
      Ends(k) == {j \in Counted("}", k) : Depth(j) = 0}
      Last(k) == IF Ends(k) = {} THEN -1
                 ELSE (CHOOSE j \in Ends(k) : \A h \in Ends(k) : h <= j) - 1
      n == Len(t)
  IN  /\ scanner.phase # "idle" =>
           /\ scanner.state.braceCount = Depth(scanner.i)
           /\ scanner.state.inString = InString(scanner.i + 1)
           /\ scanner.state.lastCompleteObjectEnd = Last(scanner.i)
      /\ scanner.phase = "done" =>
           /\ scanner.result # t => Depth(n) > 0 /\ Last(n) # -1
           /\ Depth(n) > 0 /\ Last(n) # -1 =>
                scanner.result = SubSeq(t, 1, Last(n) + 1)

\* the scan of {"}" is over: the closing brace is inside a literal, the
\* depth ends at 1, no object is complete and the text is not cut
C24_BraceInsideLiteral ==
  /\ scanner.phase = "done"
  /\ scanner.text = <<Ch("{"), Ch("\""), Ch("}"), Ch("\"")>>
  /\ scanner.state.braceCount = 1
  /\ scanner.state.lastCompleteObjectEnd = -1
  /\ scanner.result = scanner.text

-----------------------------------------------------------------------------
(* Properties of ItineraryBuilder and AiItineraryGenerator *)

\* C28: after any sequence of operations of the builder, the ids of the
\* locations of its list are pairwise distinct.
C28_DistinctIds ==
  \A i, j \in 1..Len(builder.locations) :
    builder.locations[i].id = builder.locations[j].id => i = j

\* C29: a generation that handleGenerate has started ends with isGenerating
\* false, whether generateItinerary resolves or rejects; a resolved run has
\* called onItineraryGenerated once and a rejected run never; a rejected
\* run leaves the list of the builder as it is, and a resolved run puts in
\* its place the entries of the itinerary, one location for each.
C29_GenerationEnds ==
  /\ generator.isGenerating ~> ~generator.isGenerating
  /\ [](generator.isGenerating <=> generator.outcome = "pending")
  /\ [](generator.outcome = "resolved" => generator.invoked = 1)
  /\ [](generator.outcome = "rejected" => generator.invoked = 0)
  /\ [][(generator.isGenerating /\ generator'.outcome = "rejected") =>
          builder' = builder]_vars
  /\ [][(generator.isGenerating /\ generator'.outcome = "resolved") =>
          /\ Len(builder'.locations) = Len(generator'.itinerary)
          /\ \A i \in 1..Len(generator'.itinerary) :
               /\ builder'.locations[i].name = generator'.itinerary[i].name
               /\ builder'.locations[i].day_index
                    = generator'.itinerary[i].dayIndex]_vars

\* a run has been rejected: the generator is at rest, onItineraryGenerated
\* was not called and the builder holds the locations of an earlier run
C29_RejectedRunAtRest ==
  /\ generator.outcome = "rejected"
  /\ ~generator.isGenerating
  /\ generator.invoked = 0
  /\ Len(builder.locations) = 3

\* C30: in every state with isGenerating false and at least one must-visit
\* place, also after a generation has failed with a quota error or a
\* configuration error, the user can start a generation.
C30_GenerateStaysAvailable ==
  (~generator.isGenerating /\ builder.mustVisitPlaces # <<>>) =>
    ENABLED HandleGenerate

=============================================================================
